---- MODULE Spec2Model ----
(***************************************************************************)
(* Link validation of an OpenDRIVE map (aid::xodr).                        *)
(*                                                                         *)
(* The state is a reference-resolved XodrMap (roads with their road links, *)
(* junction reference and lane sections; junctions with their connections  *)
(* and lane links) together with the error vector and the return value of  *)
(* validateLinks().  The map starts as one of the fixture maps of the      *)
(* link-validation tests, is changed through the test_set...() mutators    *)
(* the classes offer, and is then validated.                               *)
(*                                                                         *)
(* Indices (road, junction, connection, lane section, lane) are 0-based as *)
(* in the C++ code; the sequences that hold the objects are 1-based, so an *)
(* object with index i is element i + 1 of its sequence.                   *)
(***************************************************************************)
EXTENDS Integers, Sequences, FiniteSets, TLC

VARIABLES roads, junctions, errors, result, edits, pc

\* The state of XodrMap::parseXml() from the call of resolveReferences() on:
\* the members roads_, junctions_ and idToIndexMaps_ of the XodrMap under
\* construction, the errors of the parse result, and the position of
\* resolveReferences() in its four loops.
VARIABLES roads_, junctions_, idToIndexMaps_, parseErrors, resolvePc

\* The rest of the state of XodrMap::parseXml(): the lane index counter of
\* the XodrReader, the member totalNumLanes_ of the map, the position of
\* parseXml(), and the child elements of <OpenDRIVE> the XodrReader has
\* read.
VARIABLES nextGlobalLaneIndex_, totalNumLanes_, parsePc, xmlRead

\* A call of one function on its own: the function with its arguments, and
\* the sequence that is empty until the call returns and then holds the
\* value it returned.
VARIABLES call, returnValue

linkVars == <<roads, junctions, errors, result, edits, pc>>

resolveVars == <<roads_, junctions_, idToIndexMaps_, parseErrors, resolvePc>>

parseVars == <<nextGlobalLaneIndex_, totalNumLanes_, parsePc, xmlRead>>

callVars == <<call, returnValue>>

\* What the link validation, the reference resolution, the parsing of the
\* child elements and a call of one function leave alone.
nonLinkVars == <<resolveVars, parseVars, callVars>>

nonResolveVars == <<linkVars, parseVars, callVars>>

nonParseVars == <<linkVars, callVars>>

nonCallVars == <<linkVars, resolveVars, parseVars>>

vars == <<linkVars, resolveVars, parseVars, callVars>>

(***************************************************************************)
(* Bounds of the model.                                                    *)
(***************************************************************************)
\* The number of test_set...() calls applied to a fixture map.
MaxEdits == 1

\* Lane ids handed to the mutators range over -MaxLaneId .. MaxLaneId.
MaxLaneId == 2

(***************************************************************************)
(* Program constants.                                                      *)
(***************************************************************************)
\* LaneIDOpt::NULL_TAG, the value a LaneIDOpt holds when it has no value.
NULL_TAG == 2147483647

\* XodrObjectReference::NULL_VALUE, the index of a null reference.
NULL_VALUE == -1

(***************************************************************************)
(* Enumerations and small value constructors.                              *)
(***************************************************************************)
ContactPoint == {"START", "END"}

linkTypeForContactPoint(contactPoint) ==
    IF contactPoint = "START" THEN "PREDECESSOR" ELSE "SUCCESSOR"

oppositeContactPoint(contactPoint) ==
    IF contactPoint = "START" THEN "END" ELSE "START"

RoadContactPointKey(roadIdx, contactPoint) ==
    [roadIdx |-> roadIdx, contactPoint |-> contactPoint]

LaneSectionContactPointKey(roadIdx, laneSectionIdx, contactPoint) ==
    [roadIdx |-> roadIdx, laneSectionIdx |-> laneSectionIdx, contactPoint |-> contactPoint]

JunctionConnectionKey(junctionIdx, connectionIdx) ==
    [junctionIdx |-> junctionIdx, connectionIdx |-> connectionIdx]

\* RoadLink(): a link which is not specified.
RoadLinkNotSpecified ==
    [elementType |-> "NOT_SPECIFIED", elementRef |-> NULL_VALUE, contactPoint |-> "NOT_SPECIFIED"]

\* RoadLink::roadLink(roadRef, contactPoint)
RoadLinkToRoad(roadIdx, contactPoint) ==
    [elementType |-> "ROAD", elementRef |-> roadIdx, contactPoint |-> contactPoint]

\* RoadLink::junctionLink(junctionRef)
RoadLinkToJunction(junctionIdx) ==
    [elementType |-> "JUNCTION", elementRef |-> junctionIdx, contactPoint |-> "NOT_SPECIFIED"]

\* XodrObjectReference::hasValue()
hasValue(ref) == ref # NULL_VALUE

(***************************************************************************)
(* LaneID and LaneSection.                                                 *)
(***************************************************************************)
\* LaneID::sameSide comparing the ids instead of their sign bits.
sameSide_EqualIds(a, b) == a = b

\* LaneID::sameSide: (id_ ^ b.id_) >= 0.  The sign bit of the exclusive or
\* of two two's complement integers is the exclusive or of their sign bits,
\* so the result is non-negative exactly when both sign bits agree.
sameSide(a, b) == (a < 0) = (b < 0)

numLeftLanes(section) == section.numLeftLanes

numRightLanes(section) == Len(section.lanes) - section.numLeftLanes

laneIndexToId(section, idx) ==
    LET id == section.numLeftLanes - idx
    IN  IF id <= 0 THEN id - 1 ELSE id

\* laneIdToIndex without the step over the center lane.
laneIdToIndex_CountsCenterLane(section, id) == section.numLeftLanes - id

laneIdToIndex(section, id) ==
    LET idx == section.numLeftLanes - id
    IN  IF idx >= section.numLeftLanes THEN idx - 1 ELSE idx

laneById(section, id) == section.lanes[laneIdToIndex(section, id) + 1]

\* LaneSection::Lane::hasLink
hasLink(lane, roadLinkType) ==
    IF roadLinkType = "PREDECESSOR" THEN lane.predecessor # NULL_TAG
                                    ELSE lane.successor # NULL_TAG

\* LaneSection::Lane::link
link(lane, roadLinkType) ==
    IF roadLinkType = "PREDECESSOR" THEN lane.predecessor ELSE lane.successor

\* Road::laneSectionIndexForContactPoint
laneSectionIndexForContactPoint(road, contactPoint) ==
    IF contactPoint = "START" THEN 0 ELSE Len(road.laneSections) - 1

\* Road::roadLink
roadLink(road, roadLinkType) ==
    IF roadLinkType = "PREDECESSOR" THEN road.predecessor ELSE road.successor

(***************************************************************************)
(* Junction queries.                                                       *)
(***************************************************************************)
hasConnection(junction, incomingRoadIdx, connectingRoadIdx, contactPoint) ==
    \E i \in 1..Len(junction.connections) :
        /\ junction.connections[i].incomingRoad = incomingRoadIdx
        /\ junction.connections[i].connectingRoad = connectingRoadIdx
        /\ junction.connections[i].contactPoint = contactPoint

\* Junction::findConnection; returns the 1-based position of the first
\* matching connection, or 0 for the null pointer.
findConnection(junction, incomingRoadIdx, connectingRoadIdx, contactPoint) ==
    LET matches == {i \in 1..Len(junction.connections) :
                        /\ junction.connections[i].incomingRoad = incomingRoadIdx
                        /\ junction.connections[i].connectingRoad = connectingRoadIdx
                        /\ junction.connections[i].contactPoint = contactPoint}
    IN  IF matches = {} THEN 0
        ELSE CHOOSE i \in matches : \A k \in matches : i <= k

hasOutgoingConnection(junction, connectingRoadIdx, contactPoint) ==
    LET incomingContactPoint == oppositeContactPoint(contactPoint)
    IN  \E i \in 1..Len(junction.connections) :
            /\ junction.connections[i].connectingRoad = connectingRoadIdx
            /\ junction.connections[i].contactPoint = incomingContactPoint

\* Junction::Connection::findLaneLinkTarget; NULL_TAG for LaneIDOpt::null().
findLaneLinkTarget(connection, fromLane) ==
    LET matches == {i \in 1..Len(connection.laneLinks) :
                        connection.laneLinks[i].from = fromLane}
    IN  IF matches = {} THEN NULL_TAG
        ELSE connection.laneLinks[CHOOSE i \in matches : \A k \in matches : i <= k].to

(***************************************************************************)
(* Validation errors, one record shape per error class.                    *)
(***************************************************************************)
RoadBackLinkNotSpecifiedError(a, b, aToBJunctionIdx) ==
    [kind |-> "RoadBackLinkNotSpecifiedError", aContactPointKey |-> a,
     bContactPointKey |-> b, aToBJunctionIdx |-> aToBJunctionIdx]

RoadBackLinkNotSpecifiedInJunctionError(a, b, aToBJunctionIdx, backLinkJunctionIdx) ==
    [kind |-> "RoadBackLinkNotSpecifiedInJunctionError", aContactPointKey |-> a,
     bContactPointKey |-> b, aToBJunctionIdx |-> aToBJunctionIdx,
     backLinkJunctionIdx |-> backLinkJunctionIdx]

RoadLinkMisMatchError(a, b, c, aToBJunctionIdx) ==
    [kind |-> "RoadLinkMisMatchError", aContactPointKey |-> a, bContactPointKey |-> b,
     cContactPointKey |-> c, aToBJunctionIdx |-> aToBJunctionIdx]

DirectLinkToJunctionRoadError(a, b) ==
    [kind |-> "DirectLinkToJunctionRoadError", aContactPointKey |-> a, bContactPointKey |-> b]

InconsistentJunctionPathDirectionsError(a, b, aToBJunctionIdx, bToAJunctionIdx) ==
    [kind |-> "InconsistentJunctionPathDirectionsError", aContactPointKey |-> a,
     bContactPointKey |-> b, aToBJunctionIdx |-> aToBJunctionIdx,
     bToAJunctionIdx |-> bToAJunctionIdx]

LaneBackLinkNotSpecified(a, b, aLaneId, bLaneId) ==
    [kind |-> "LaneBackLinkNotSpecified", aSectionContactPointKey |-> a,
     bSectionContactPointKey |-> b, aLaneId |-> aLaneId, bLaneId |-> bLaneId]

LaneLinkMisMatch(a, b, aLaneId, bLaneId, cLaneId) ==
    [kind |-> "LaneLinkMisMatch", aSectionContactPointKey |-> a,
     bSectionContactPointKey |-> b, aLaneId |-> aLaneId, bLaneId |-> bLaneId,
     cLaneId |-> cLaneId]

LaneLinkToCenterLaneError(a, b, fromLaneId) ==
    [kind |-> "LaneLinkToCenterLaneError", aSectionContactPointKey |-> a,
     bSectionContactPointKey |-> b, fromLaneId |-> fromLaneId]

LaneLinkTargetOutOfRange(a, b, aLaneId, bLaneId) ==
    [kind |-> "LaneLinkTargetOutOfRange", aSectionContactPointKey |-> a,
     bSectionContactPointKey |-> b, aLaneId |-> aLaneId, bLaneId |-> bLaneId]

LaneLinkOpposingDirections(a, b, aLaneId, bLaneId) ==
    [kind |-> "LaneLinkOpposingDirections", aSectionContactPointKey |-> a,
     bSectionContactPointKey |-> b, aLaneId |-> aLaneId, bLaneId |-> bLaneId]

(***************************************************************************)
(* Every validation function returns its bool and appends to 'errors'; it  *)
(* is modelled as the pair of the returned bool and the appended errors.   *)
(***************************************************************************)
Passed == [ok |-> TRUE, errs |-> <<>>]

Failed(error) == [ok |-> FALSE, errs |-> <<error>>]

RECURSIVE Flatten(_)
Flatten(results) ==
    IF results = <<>> THEN <<>>
    ELSE Head(results).errs \o Flatten(Tail(results))

\* The loop idiom 'success &= f(...)' / 'success = false' over a sequence
\* of calls: every call is made, the errors are appended in call order and
\* the loop succeeds when every call did.
Collect(results) ==
    [ok |-> \A i \in 1..Len(results) : results[i].ok, errs |-> Flatten(results)]

(***************************************************************************)
(* Lane link validation (validation/lane_link_validation.cpp).             *)
(***************************************************************************)
\* validateLaneLinkInRange whose range check returns false without an error.
validateLaneLinkInRange_SilentRangeFailure(aSectionContactPointKey, bSectionContactPointKey, fromLaneId, toLaneId, roadsOpposingDirections, toLaneIDsMin, toLaneIDsMax) ==
    IF toLaneId = 0
    THEN Failed(LaneLinkToCenterLaneError(aSectionContactPointKey, bSectionContactPointKey,
                                          fromLaneId))
    ELSE IF sameSide(fromLaneId, toLaneId) = roadsOpposingDirections
    THEN Failed(LaneLinkOpposingDirections(aSectionContactPointKey, bSectionContactPointKey,
                                           fromLaneId, toLaneId))
    ELSE IF toLaneId < toLaneIDsMin \/ toLaneId > toLaneIDsMax
    THEN [ok |-> FALSE, errs |-> <<>>]
    ELSE Passed


\* validateLaneLinkInRange without the range check.
validateLaneLinkInRange_NoRangeCheck(aSectionContactPointKey, bSectionContactPointKey, fromLaneId, toLaneId, roadsOpposingDirections, toLaneIDsMin, toLaneIDsMax) ==
    IF toLaneId = 0
    THEN Failed(LaneLinkToCenterLaneError(aSectionContactPointKey, bSectionContactPointKey,
                                          fromLaneId))
    ELSE IF sameSide(fromLaneId, toLaneId) = roadsOpposingDirections
    THEN Failed(LaneLinkOpposingDirections(aSectionContactPointKey, bSectionContactPointKey,
                                           fromLaneId, toLaneId))
    ELSE Passed

validateLaneLinkInRange(aSectionContactPointKey, bSectionContactPointKey, fromLaneId, toLaneId, roadsOpposingDirections, toLaneIDsMin, toLaneIDsMax) ==
    IF toLaneId = 0
    THEN Failed(LaneLinkToCenterLaneError(aSectionContactPointKey, bSectionContactPointKey,
                                          fromLaneId))
    ELSE IF sameSide(fromLaneId, toLaneId) = roadsOpposingDirections
    THEN Failed(LaneLinkOpposingDirections(aSectionContactPointKey, bSectionContactPointKey,
                                           fromLaneId, toLaneId))
    ELSE IF toLaneId < toLaneIDsMin \/ toLaneId > toLaneIDsMax
    THEN Failed(LaneLinkTargetOutOfRange(aSectionContactPointKey, bSectionContactPointKey,
                                         fromLaneId, toLaneId))
    ELSE Passed

fromRoadToLaneSectionContactPointKey(roadContactPointKey) ==
    LET road == roads[roadContactPointKey.roadIdx + 1]
        laneSectionIdx ==
            laneSectionIndexForContactPoint(road, roadContactPointKey.contactPoint)
    IN  LaneSectionContactPointKey(roadContactPointKey.roadIdx, laneSectionIdx,
                                   roadContactPointKey.contactPoint)

laneSectionByKey(key) == roads[key.roadIdx + 1].laneSections[key.laneSectionIdx + 1]

\* The back link check accepting a target lane without a back link.
laneBackLink_MissingIsAccepted(toSection, backLinkType, aKey, bKey, fromLaneId, toLaneId) ==
    LET bLane == laneById(toSection, toLaneId)
    IN  IF hasLink(bLane, backLinkType)
        THEN LET backLinkId == link(bLane, backLinkType)
             IN  IF backLinkId # fromLaneId
                 THEN Failed(LaneLinkMisMatch(aKey, bKey, fromLaneId, toLaneId, backLinkId))
                 ELSE Passed
        ELSE Passed

\* The check of the back link which is stored in lane 'toLaneId' of the
\* 'to' section, as validateLaneLinks, validateRoadRoadLaneLinks and
\* validateIncomingConnectingLaneLinks make it.
laneBackLink(toSection, backLinkType, aKey, bKey, fromLaneId, toLaneId) ==
    LET bLane == laneById(toSection, toLaneId)
    IN  IF hasLink(bLane, backLinkType)
        THEN LET backLinkId == link(bLane, backLinkType)
             IN  IF backLinkId # fromLaneId
                 THEN Failed(LaneLinkMisMatch(aKey, bKey, fromLaneId, toLaneId, backLinkId))
                 ELSE Passed
        ELSE Failed(LaneBackLinkNotSpecified(aKey, bKey, fromLaneId, toLaneId))

validateLaneLinks(fromSection, toSection, fromContactPointKey, toContactPointKey) ==
    LET toLaneIDsMin == -numRightLanes(toSection)
        toLaneIDsMax == numLeftLanes(toSection)
        roadsOpposingDirections ==
            fromContactPointKey.contactPoint = toContactPointKey.contactPoint
        linkType == linkTypeForContactPoint(fromContactPointKey.contactPoint)
        backLinkType == linkTypeForContactPoint(toContactPointKey.contactPoint)
        iteration(i) ==
            LET fromLane == fromSection.lanes[i + 1]
                fromLaneId == laneIndexToId(fromSection, i)
                toLaneId == link(fromLane, linkType)
                inRange == validateLaneLinkInRange(fromContactPointKey, toContactPointKey,
                                                   fromLaneId, toLaneId, roadsOpposingDirections,
                                                   toLaneIDsMin, toLaneIDsMax)
            IN  IF ~hasLink(fromLane, linkType) THEN Passed
                ELSE IF inRange.ok
                THEN laneBackLink(toSection, backLinkType, fromContactPointKey,
                                  toContactPointKey, fromLaneId, toLaneId)
                ELSE [ok |-> FALSE, errs |-> inRange.errs]
    IN  Collect([k \in 1..Len(fromSection.lanes) |-> iteration(k - 1)])

validateRoadRoadLaneLinks(fromContactPointKey, toContactPointKey) ==
    LET fromSectionContactPointKey == fromRoadToLaneSectionContactPointKey(fromContactPointKey)
        toSectionContactPointKey == fromRoadToLaneSectionContactPointKey(toContactPointKey)
        fromLaneSection == laneSectionByKey(fromSectionContactPointKey)
        toLaneSection == laneSectionByKey(toSectionContactPointKey)
        toLaneIDsMin == -numRightLanes(toLaneSection)
        toLaneIDsMax == numLeftLanes(toLaneSection)
        linkType == linkTypeForContactPoint(fromContactPointKey.contactPoint)
        backLinkType == linkTypeForContactPoint(toContactPointKey.contactPoint)
        roadsOpposingDirections ==
            fromContactPointKey.contactPoint = toContactPointKey.contactPoint
        iteration(i) ==
            LET fromLane == fromLaneSection.lanes[i + 1]
                fromLaneId == laneIndexToId(fromLaneSection, i)
                toLaneId == link(fromLane, linkType)
                inRange == validateLaneLinkInRange(fromSectionContactPointKey,
                                                   toSectionContactPointKey, fromLaneId, toLaneId,
                                                   roadsOpposingDirections, toLaneIDsMin,
                                                   toLaneIDsMax)
            IN  IF ~hasLink(fromLane, linkType) THEN Passed
                ELSE IF inRange.ok
                THEN laneBackLink(toLaneSection, backLinkType, fromSectionContactPointKey,
                                  toSectionContactPointKey, fromLaneId, toLaneId)
                ELSE [ok |-> FALSE, errs |-> inRange.errs]
    IN  Collect([k \in 1..Len(fromLaneSection.lanes) |-> iteration(k - 1)])

\* 'from' is a connecting road, 'to' an incoming road: the back link is a
\* lane link of 'backLinkConnection'.  When validateLaneLinkInRange fails
\* the code appends its error and leaves 'success' as it is.
validateConnectingIncomingLaneLinks(fromContactPointKey, toContactPointKey, backLinkConnection) ==
    LET fromSectionContactPointKey == fromRoadToLaneSectionContactPointKey(fromContactPointKey)
        toSectionContactPointKey == fromRoadToLaneSectionContactPointKey(toContactPointKey)
        fromLaneSection == laneSectionByKey(fromSectionContactPointKey)
        toLaneSection == laneSectionByKey(toSectionContactPointKey)
        toLaneIDsMin == -numRightLanes(toLaneSection)
        toLaneIDsMax == numLeftLanes(toLaneSection)
        linkType == linkTypeForContactPoint(fromContactPointKey.contactPoint)
        roadsOpposingDirections ==
            fromContactPointKey.contactPoint = toContactPointKey.contactPoint
        iteration(i) ==
            LET fromLane == fromLaneSection.lanes[i + 1]
                fromLaneId == laneIndexToId(fromLaneSection, i)
                toLaneId == link(fromLane, linkType)
                inRange == validateLaneLinkInRange(fromSectionContactPointKey,
                                                   toSectionContactPointKey, fromLaneId, toLaneId,
                                                   roadsOpposingDirections, toLaneIDsMin,
                                                   toLaneIDsMax)
                backLinkIdOpt == findLaneLinkTarget(backLinkConnection, toLaneId)
            IN  IF ~hasLink(fromLane, linkType) THEN Passed
                ELSE IF inRange.ok
                THEN IF backLinkIdOpt # NULL_TAG
                     THEN IF backLinkIdOpt # fromLaneId
                          THEN Failed(LaneLinkMisMatch(fromSectionContactPointKey,
                                                       toSectionContactPointKey, fromLaneId,
                                                       toLaneId, backLinkIdOpt))
                          ELSE Passed
                     ELSE Failed(LaneBackLinkNotSpecified(fromSectionContactPointKey,
                                                          toSectionContactPointKey, fromLaneId,
                                                          toLaneId))
                ELSE [ok |-> TRUE, errs |-> inRange.errs]
    IN  Collect([k \in 1..Len(fromLaneSection.lanes) |-> iteration(k - 1)])

validateConnectingOutgoingLaneLinks(fromContactPointKey, toContactPointKey) ==
    LET fromSectionContactPointKey == fromRoadToLaneSectionContactPointKey(fromContactPointKey)
        toSectionContactPointKey == fromRoadToLaneSectionContactPointKey(toContactPointKey)
        fromLaneSection == laneSectionByKey(fromSectionContactPointKey)
        toLaneSection == laneSectionByKey(toSectionContactPointKey)
        toLaneIDsMin == -numRightLanes(toLaneSection)
        toLaneIDsMax == numLeftLanes(toLaneSection)
        linkType == linkTypeForContactPoint(fromContactPointKey.contactPoint)
        roadsOpposingDirections ==
            fromContactPointKey.contactPoint = toContactPointKey.contactPoint
        iteration(i) ==
            LET fromLane == fromLaneSection.lanes[i + 1]
            IN  IF ~hasLink(fromLane, linkType) THEN Passed
                ELSE validateLaneLinkInRange(fromSectionContactPointKey,
                                             toSectionContactPointKey,
                                             laneIndexToId(fromLaneSection, i),
                                             link(fromLane, linkType), roadsOpposingDirections,
                                             toLaneIDsMin, toLaneIDsMax)
    IN  Collect([k \in 1..Len(fromLaneSection.lanes) |-> iteration(k - 1)])

\* The part of the loop body which validateIncomingConnectingLaneLinks and
\* validateConnectingConnectingLaneLinks have in common: a lane link between
\* the center lane and another lane.
centerLaneErrors(fromKey, toKey, fromLaneId, toLaneId) ==
    IF fromLaneId # 0 /\ toLaneId = 0
    THEN <<LaneLinkToCenterLaneError(fromKey, toKey, fromLaneId)>>
    ELSE IF fromLaneId = 0 /\ toLaneId # 0
    THEN <<LaneLinkToCenterLaneError(toKey, fromKey, toLaneId)>>
    ELSE <<>>

toRangeErrors(fromKey, toKey, fromLaneId, toLaneId, toLaneIDsMin, toLaneIDsMax) ==
    IF toLaneId < toLaneIDsMin \/ toLaneId > toLaneIDsMax
    THEN <<LaneLinkTargetOutOfRange(fromKey, toKey, fromLaneId, toLaneId)>>
    ELSE <<>>

fromRangeErrors(fromKey, toKey, fromLaneId, toLaneId, fromLaneIDsMin, fromLaneIDsMax) ==
    IF fromLaneId < fromLaneIDsMin \/ fromLaneId > fromLaneIDsMax
    THEN <<LaneLinkTargetOutOfRange(toKey, fromKey, toLaneId, fromLaneId)>>
    ELSE <<>>

\* 'from' is an incoming road, 'to' a connecting road: the links are the
\* lane links of the connection, the back links are stored in the lanes of
\* the connecting road.
validateIncomingConnectingLaneLinks(fromContactPointKey, toContactPointKey, connectionKey) ==
    LET fromSectionContactPointKey == fromRoadToLaneSectionContactPointKey(fromContactPointKey)
        toSectionContactPointKey == fromRoadToLaneSectionContactPointKey(toContactPointKey)
        fromLaneSection == laneSectionByKey(fromSectionContactPointKey)
        toLaneSection == laneSectionByKey(toSectionContactPointKey)
        connection ==
            junctions[connectionKey.junctionIdx + 1].connections[connectionKey.connectionIdx + 1]
        fromLaneIDsMin == -numRightLanes(fromLaneSection)
        fromLaneIDsMax == numLeftLanes(fromLaneSection)
        toLaneIDsMin == -numRightLanes(toLaneSection)
        toLaneIDsMax == numLeftLanes(toLaneSection)
        backLinkType == linkTypeForContactPoint(toContactPointKey.contactPoint)
        roadsOpposingDirections ==
            fromContactPointKey.contactPoint = toContactPointKey.contactPoint
        iteration(i) ==
            LET fromLaneId == connection.laneLinks[i + 1].from
                toLaneId == connection.laneLinks[i + 1].to
                curErrors ==
                    centerLaneErrors(fromSectionContactPointKey, toSectionContactPointKey,
                                     fromLaneId, toLaneId)
                    \o toRangeErrors(fromSectionContactPointKey, toSectionContactPointKey,
                                     fromLaneId, toLaneId, toLaneIDsMin, toLaneIDsMax)
                    \o fromRangeErrors(fromSectionContactPointKey, toSectionContactPointKey,
                                       fromLaneId, toLaneId, fromLaneIDsMin, fromLaneIDsMax)
            IN  IF curErrors # <<>> THEN [ok |-> FALSE, errs |-> curErrors]
                ELSE IF fromLaneId = 0 \/ toLaneId = 0 THEN Passed
                ELSE IF sameSide(fromLaneId, toLaneId) = roadsOpposingDirections
                THEN Failed(LaneLinkOpposingDirections(fromSectionContactPointKey,
                                                       toSectionContactPointKey, fromLaneId,
                                                       toLaneId))
                ELSE laneBackLink(toLaneSection, backLinkType, fromSectionContactPointKey,
                                  toSectionContactPointKey, fromLaneId, toLaneId)
    IN  Collect([k \in 1..Len(connection.laneLinks) |-> iteration(k - 1)])

\* Both roads are connecting roads of different junctions.
validateConnectingConnectingLaneLinks(fromContactPointKey, toContactPointKey, linkConnection) ==
    LET fromSectionContactPointKey == fromRoadToLaneSectionContactPointKey(fromContactPointKey)
        toSectionContactPointKey == fromRoadToLaneSectionContactPointKey(toContactPointKey)
        fromLaneSection == laneSectionByKey(fromSectionContactPointKey)
        toLaneSection == laneSectionByKey(toSectionContactPointKey)
        fromLaneIDsMin == -numRightLanes(fromLaneSection)
        fromLaneIDsMax == numLeftLanes(fromLaneSection)
        toLaneIDsMin == -numRightLanes(toLaneSection)
        toLaneIDsMax == numLeftLanes(toLaneSection)
        iteration(i) ==
            LET fromLaneId == linkConnection.laneLinks[i + 1].from
                toLaneId == linkConnection.laneLinks[i + 1].to
                curErrors ==
                    centerLaneErrors(fromSectionContactPointKey, toSectionContactPointKey,
                                     fromLaneId, toLaneId)
                    \o fromRangeErrors(fromSectionContactPointKey, toSectionContactPointKey,
                                       fromLaneId, toLaneId, fromLaneIDsMin, fromLaneIDsMax)
                    \o toRangeErrors(fromSectionContactPointKey, toSectionContactPointKey,
                                     fromLaneId, toLaneId, toLaneIDsMin, toLaneIDsMax)
            IN  [ok |-> curErrors = <<>>, errs |-> curErrors]
    IN  Collect([k \in 1..Len(linkConnection.laneLinks) |-> iteration(k - 1)])

\* validateRoadInternalLaneLinks validating the successor links only.
validateRoadInternalLaneLinks_SuccessorsOnly(roadIdx) ==
    LET laneSections == roads[roadIdx + 1].laneSections
        iteration(i) ==
            LET key1 == LaneSectionContactPointKey(roadIdx, i, "END")
                key2 == LaneSectionContactPointKey(roadIdx, i + 1, "START")
            IN  validateLaneLinks(laneSections[i + 1], laneSections[i + 2], key1, key2)
    IN  Collect([k \in 1..(Len(laneSections) - 1) |-> iteration(k - 1)])

\* The lane links between the adjacent lane sections of one road.
validateRoadInternalLaneLinks(roadIdx) ==
    LET laneSections == roads[roadIdx + 1].laneSections
        iteration(i) ==
            LET key1 == LaneSectionContactPointKey(roadIdx, i, "END")
                key2 == LaneSectionContactPointKey(roadIdx, i + 1, "START")
            IN  Collect(<<validateLaneLinks(laneSections[i + 1], laneSections[i + 2], key1, key2),
                          validateLaneLinks(laneSections[i + 2], laneSections[i + 1], key2, key1)>>)
    IN  Collect([k \in 1..(Len(laneSections) - 1) |-> iteration(k - 1)])

(***************************************************************************)
(* Road link validation (validation/road_link_validation.cpp).             *)
(***************************************************************************)
roadLinkForRoadContactPoint(key) ==
    roadLink(roads[key.roadIdx + 1], linkTypeForContactPoint(key.contactPoint))

\* validateRoadRoadLink with the NOT_SPECIFIED case of the switch passing.
validateRoadRoadLink_AcceptsMissingBackLink(fromContactPointKey, toContactPointKey) ==
    LET backLink == roadLinkForRoadContactPoint(toContactPointKey)
        backLinkJunctionIdx == backLink.elementRef
        backLinkJunction == junctions[backLinkJunctionIdx + 1]
        connection == findConnection(backLinkJunction, toContactPointKey.roadIdx,
                                     fromContactPointKey.roadIdx,
                                     fromContactPointKey.contactPoint)
    IN  CASE backLink.elementType = "NOT_SPECIFIED" -> Passed
          [] backLink.elementType = "ROAD" ->
                IF \/ backLink.elementRef # fromContactPointKey.roadIdx
                   \/ backLink.contactPoint # fromContactPointKey.contactPoint
                THEN Failed(RoadLinkMisMatchError(
                                fromContactPointKey, toContactPointKey,
                                RoadContactPointKey(backLink.elementRef, backLink.contactPoint),
                                -1))
                ELSE validateRoadRoadLaneLinks(fromContactPointKey, toContactPointKey)
          [] backLink.elementType = "JUNCTION" ->
                IF connection # 0
                THEN validateConnectingIncomingLaneLinks(
                         fromContactPointKey, toContactPointKey,
                         backLinkJunction.connections[connection])
                ELSE IF hasOutgoingConnection(backLinkJunction, fromContactPointKey.roadIdx,
                                              fromContactPointKey.contactPoint)
                THEN validateConnectingOutgoingLaneLinks(fromContactPointKey, toContactPointKey)
                ELSE Failed(RoadBackLinkNotSpecifiedInJunctionError(
                                fromContactPointKey, toContactPointKey, -1,
                                backLinkJunctionIdx))

\* validateRoadRoadLink comparing only the road index of the back link.
validateRoadRoadLink_IgnoresContactPoint(fromContactPointKey, toContactPointKey) ==
    LET backLink == roadLinkForRoadContactPoint(toContactPointKey)
        backLinkJunctionIdx == backLink.elementRef
        backLinkJunction == junctions[backLinkJunctionIdx + 1]
        connection == findConnection(backLinkJunction, toContactPointKey.roadIdx,
                                     fromContactPointKey.roadIdx,
                                     fromContactPointKey.contactPoint)
    IN  CASE backLink.elementType = "NOT_SPECIFIED" ->
                Failed(RoadBackLinkNotSpecifiedError(fromContactPointKey, toContactPointKey, -1))
          [] backLink.elementType = "ROAD" ->
                IF backLink.elementRef # fromContactPointKey.roadIdx
                THEN Failed(RoadLinkMisMatchError(
                                fromContactPointKey, toContactPointKey,
                                RoadContactPointKey(backLink.elementRef, backLink.contactPoint),
                                -1))
                ELSE validateRoadRoadLaneLinks(fromContactPointKey, toContactPointKey)
          [] backLink.elementType = "JUNCTION" ->
                IF connection # 0
                THEN validateConnectingIncomingLaneLinks(
                         fromContactPointKey, toContactPointKey,
                         backLinkJunction.connections[connection])
                ELSE IF hasOutgoingConnection(backLinkJunction, fromContactPointKey.roadIdx,
                                              fromContactPointKey.contactPoint)
                THEN validateConnectingOutgoingLaneLinks(fromContactPointKey, toContactPointKey)
                ELSE Failed(RoadBackLinkNotSpecifiedInJunctionError(
                                fromContactPointKey, toContactPointKey, -1,
                                backLinkJunctionIdx))

validateRoadRoadLink(fromContactPointKey, toContactPointKey) ==
    LET backLink == roadLinkForRoadContactPoint(toContactPointKey)
        backLinkJunctionIdx == backLink.elementRef
        backLinkJunction == junctions[backLinkJunctionIdx + 1]
        connection == findConnection(backLinkJunction, toContactPointKey.roadIdx,
                                     fromContactPointKey.roadIdx,
                                     fromContactPointKey.contactPoint)
    IN  CASE backLink.elementType = "NOT_SPECIFIED" ->
                Failed(RoadBackLinkNotSpecifiedError(fromContactPointKey, toContactPointKey, -1))
          [] backLink.elementType = "ROAD" ->
                IF \/ backLink.elementRef # fromContactPointKey.roadIdx
                   \/ backLink.contactPoint # fromContactPointKey.contactPoint
                THEN Failed(RoadLinkMisMatchError(
                                fromContactPointKey, toContactPointKey,
                                RoadContactPointKey(backLink.elementRef, backLink.contactPoint),
                                -1))
                ELSE validateRoadRoadLaneLinks(fromContactPointKey, toContactPointKey)
          [] backLink.elementType = "JUNCTION" ->
                IF connection # 0
                THEN validateConnectingIncomingLaneLinks(
                         fromContactPointKey, toContactPointKey,
                         backLinkJunction.connections[connection])
                ELSE IF hasOutgoingConnection(backLinkJunction, fromContactPointKey.roadIdx,
                                              fromContactPointKey.contactPoint)
                THEN validateConnectingOutgoingLaneLinks(fromContactPointKey, toContactPointKey)
                ELSE Failed(RoadBackLinkNotSpecifiedInJunctionError(
                                fromContactPointKey, toContactPointKey, -1,
                                backLinkJunctionIdx))

\* validateIncomingConnectingLink which compares the contact point of the
\* back link with the one of the connecting road.
validateIncomingConnectingLink_ComparesToContactPoint(fromContactPointKey, toContactPointKey, connectionKey) ==
    LET backLink == roadLinkForRoadContactPoint(toContactPointKey)
        junction == junctions[connectionKey.junctionIdx + 1]
        conn == junction.connections[connectionKey.connectionIdx + 1]
        backLinkJunctionIdx == backLink.elementRef
        backLinkJunction == junctions[backLinkJunctionIdx + 1]
    IN  CASE backLink.elementType = "NOT_SPECIFIED" ->
                Failed(RoadBackLinkNotSpecifiedError(fromContactPointKey, toContactPointKey,
                                                     connectionKey.junctionIdx))
          [] backLink.elementType = "ROAD" ->
                IF \/ backLink.elementRef # fromContactPointKey.roadIdx
                   \/ backLink.contactPoint # toContactPointKey.contactPoint
                THEN Failed(RoadLinkMisMatchError(
                                fromContactPointKey, toContactPointKey,
                                RoadContactPointKey(backLink.elementRef, backLink.contactPoint),
                                connectionKey.junctionIdx))
                ELSE validateIncomingConnectingLaneLinks(fromContactPointKey,
                                                         toContactPointKey, connectionKey)
          [] backLink.elementType = "JUNCTION" ->
                IF hasConnection(backLinkJunction, toContactPointKey.roadIdx,
                                 fromContactPointKey.roadIdx, fromContactPointKey.contactPoint)
                THEN Failed(InconsistentJunctionPathDirectionsError(
                                fromContactPointKey, toContactPointKey,
                                connectionKey.junctionIdx, backLinkJunctionIdx))
                ELSE IF hasOutgoingConnection(backLinkJunction, fromContactPointKey.roadIdx,
                                              fromContactPointKey.contactPoint)
                THEN validateConnectingConnectingLaneLinks(fromContactPointKey,
                                                           toContactPointKey, conn)
                ELSE Failed(RoadBackLinkNotSpecifiedInJunctionError(
                                fromContactPointKey, toContactPointKey,
                                connectionKey.junctionIdx, backLinkJunctionIdx))

\* validateIncomingConnectingLink which looks for the outgoing connection first.
validateIncomingConnectingLink_OutgoingFirst(fromContactPointKey, toContactPointKey, connectionKey) ==
    LET backLink == roadLinkForRoadContactPoint(toContactPointKey)
        junction == junctions[connectionKey.junctionIdx + 1]
        conn == junction.connections[connectionKey.connectionIdx + 1]
        backLinkJunctionIdx == backLink.elementRef
        backLinkJunction == junctions[backLinkJunctionIdx + 1]
    IN  CASE backLink.elementType = "NOT_SPECIFIED" ->
                Failed(RoadBackLinkNotSpecifiedError(fromContactPointKey, toContactPointKey,
                                                     connectionKey.junctionIdx))
          [] backLink.elementType = "ROAD" ->
                IF \/ backLink.elementRef # fromContactPointKey.roadIdx
                   \/ backLink.contactPoint # fromContactPointKey.contactPoint
                THEN Failed(RoadLinkMisMatchError(
                                fromContactPointKey, toContactPointKey,
                                RoadContactPointKey(backLink.elementRef, backLink.contactPoint),
                                connectionKey.junctionIdx))
                ELSE validateIncomingConnectingLaneLinks(fromContactPointKey,
                                                         toContactPointKey, connectionKey)
          [] backLink.elementType = "JUNCTION" ->
                IF hasOutgoingConnection(backLinkJunction, fromContactPointKey.roadIdx,
                                         fromContactPointKey.contactPoint)
                THEN validateConnectingConnectingLaneLinks(fromContactPointKey,
                                                           toContactPointKey, conn)
                ELSE IF hasConnection(backLinkJunction, toContactPointKey.roadIdx,
                                      fromContactPointKey.roadIdx,
                                      fromContactPointKey.contactPoint)
                THEN Failed(InconsistentJunctionPathDirectionsError(
                                fromContactPointKey, toContactPointKey,
                                connectionKey.junctionIdx, backLinkJunctionIdx))
                ELSE Failed(RoadBackLinkNotSpecifiedInJunctionError(
                                fromContactPointKey, toContactPointKey,
                                connectionKey.junctionIdx, backLinkJunctionIdx))

validateIncomingConnectingLink(fromContactPointKey, toContactPointKey, connectionKey) ==
    LET backLink == roadLinkForRoadContactPoint(toContactPointKey)
        junction == junctions[connectionKey.junctionIdx + 1]
        conn == junction.connections[connectionKey.connectionIdx + 1]
        backLinkJunctionIdx == backLink.elementRef
        backLinkJunction == junctions[backLinkJunctionIdx + 1]
    IN  CASE backLink.elementType = "NOT_SPECIFIED" ->
                Failed(RoadBackLinkNotSpecifiedError(fromContactPointKey, toContactPointKey,
                                                     connectionKey.junctionIdx))
          [] backLink.elementType = "ROAD" ->
                IF \/ backLink.elementRef # fromContactPointKey.roadIdx
                   \/ backLink.contactPoint # fromContactPointKey.contactPoint
                THEN Failed(RoadLinkMisMatchError(
                                fromContactPointKey, toContactPointKey,
                                RoadContactPointKey(backLink.elementRef, backLink.contactPoint),
                                connectionKey.junctionIdx))
                ELSE validateIncomingConnectingLaneLinks(fromContactPointKey,
                                                         toContactPointKey, connectionKey)
          [] backLink.elementType = "JUNCTION" ->
                IF hasConnection(backLinkJunction, toContactPointKey.roadIdx,
                                 fromContactPointKey.roadIdx, fromContactPointKey.contactPoint)
                THEN Failed(InconsistentJunctionPathDirectionsError(
                                fromContactPointKey, toContactPointKey,
                                connectionKey.junctionIdx, backLinkJunctionIdx))
                ELSE IF hasOutgoingConnection(backLinkJunction, fromContactPointKey.roadIdx,
                                              fromContactPointKey.contactPoint)
                THEN validateConnectingConnectingLaneLinks(fromContactPointKey,
                                                           toContactPointKey, conn)
                ELSE Failed(RoadBackLinkNotSpecifiedInJunctionError(
                                fromContactPointKey, toContactPointKey,
                                connectionKey.junctionIdx, backLinkJunctionIdx))

\* validateLinksIteration testing the junction reference of the from road.
validateLinksIteration_ChecksFromRoad(contactPointKey) ==
    LET roadLnk == roadLinkForRoadContactPoint(contactPointKey)
        toContactPointKey == RoadContactPointKey(roadLnk.elementRef, roadLnk.contactPoint)
        toRoad == roads[roadLnk.elementRef + 1]
        junctionIdx == roadLnk.elementRef
        connections == junctions[junctionIdx + 1].connections
        iteration(i) ==
            LET conn == connections[i + 1]
            IN  IF conn.incomingRoad # contactPointKey.roadIdx THEN Passed
                ELSE validateIncomingConnectingLink(
                         contactPointKey,
                         RoadContactPointKey(conn.connectingRoad, conn.contactPoint),
                         JunctionConnectionKey(junctionIdx, i))
    IN  CASE roadLnk.elementType = "NOT_SPECIFIED" -> Passed
          [] roadLnk.elementType = "ROAD" ->
                IF hasValue(roads[contactPointKey.roadIdx + 1].junctionRef)
                THEN Failed(DirectLinkToJunctionRoadError(contactPointKey, toContactPointKey))
                ELSE validateRoadRoadLink(contactPointKey, toContactPointKey)
          [] roadLnk.elementType = "JUNCTION" ->
                Collect([k \in 1..Len(connections) |-> iteration(k - 1)])

\* validateLinksIteration which leaves the loop after the first connection of the road.
validateLinksIteration_FirstConnectionOnly(contactPointKey) ==
    LET roadLnk == roadLinkForRoadContactPoint(contactPointKey)
        toContactPointKey == RoadContactPointKey(roadLnk.elementRef, roadLnk.contactPoint)
        toRoad == roads[roadLnk.elementRef + 1]
        junctionIdx == roadLnk.elementRef
        connections == junctions[junctionIdx + 1].connections
        iteration(i) ==
            LET conn == connections[i + 1]
            IN  IF conn.incomingRoad # contactPointKey.roadIdx THEN Passed
                ELSE validateIncomingConnectingLink(
                         contactPointKey,
                         RoadContactPointKey(conn.connectingRoad, conn.contactPoint),
                         JunctionConnectionKey(junctionIdx, i))
    IN  CASE roadLnk.elementType = "NOT_SPECIFIED" -> Passed
          [] roadLnk.elementType = "ROAD" ->
                IF hasValue(toRoad.junctionRef)
                THEN Failed(DirectLinkToJunctionRoadError(contactPointKey, toContactPointKey))
                ELSE validateRoadRoadLink(contactPointKey, toContactPointKey)
          [] roadLnk.elementType = "JUNCTION" ->
                LET incoming == {k \in 1..Len(connections) :
                                    connections[k].incomingRoad = contactPointKey.roadIdx}
                IN  IF incoming = {} THEN Passed
                    ELSE iteration((CHOOSE k \in incoming : \A n \in incoming : k <= n) - 1)

validateLinksIteration(contactPointKey) ==
    LET roadLnk == roadLinkForRoadContactPoint(contactPointKey)
        toContactPointKey == RoadContactPointKey(roadLnk.elementRef, roadLnk.contactPoint)
        toRoad == roads[roadLnk.elementRef + 1]
        junctionIdx == roadLnk.elementRef
        connections == junctions[junctionIdx + 1].connections
        iteration(i) ==
            LET conn == connections[i + 1]
            IN  IF conn.incomingRoad # contactPointKey.roadIdx THEN Passed
                ELSE validateIncomingConnectingLink(
                         contactPointKey,
                         RoadContactPointKey(conn.connectingRoad, conn.contactPoint),
                         JunctionConnectionKey(junctionIdx, i))
    IN  CASE roadLnk.elementType = "NOT_SPECIFIED" -> Passed
          [] roadLnk.elementType = "ROAD" ->
                IF hasValue(toRoad.junctionRef)
                THEN Failed(DirectLinkToJunctionRoadError(contactPointKey, toContactPointKey))
                ELSE validateRoadRoadLink(contactPointKey, toContactPointKey)
          [] roadLnk.elementType = "JUNCTION" ->
                Collect([k \in 1..Len(connections) |-> iteration(k - 1)])

validateLinks ==
    LET iteration(i) ==
            Collect(<<validateRoadInternalLaneLinks(i),
                      validateLinksIteration(RoadContactPointKey(i, "START")),
                      validateLinksIteration(RoadContactPointKey(i, "END"))>>)
    IN  Collect([k \in 1..Len(roads) |-> iteration(k - 1)])

(***************************************************************************)
(* Parsed maps of the shapes the link validation tests validate            *)
(* (test_road_link_validation.cpp, test_lane_link_validation.cpp); roads   *)
(* and junctions are named by their indices.                               *)
(***************************************************************************)
Lane(predecessor, successor) == [predecessor |-> predecessor, successor |-> successor]

LaneSection(numLeft, lanes) == [numLeftLanes |-> numLeft, lanes |-> lanes]

Road(junctionRef, predecessor, successor, laneSections) ==
    [junctionRef |-> junctionRef, predecessor |-> predecessor, successor |-> successor,
     laneSections |-> laneSections]

LaneLink(from, to) == [from |-> from, to |-> to]

Connection(incomingRoad, connectingRoad, contactPoint, laneLinks) ==
    [incomingRoad |-> incomingRoad, connectingRoad |-> connectingRoad,
     contactPoint |-> contactPoint, laneLinks |-> laneLinks]

Junction(connections) == [connections |-> connections]

\* A lane section with one left and one right lane, neither of them linked.
UnlinkedSection == LaneSection(1, <<Lane(NULL_TAG, NULL_TAG), Lane(NULL_TAG, NULL_TAG)>>)

\* A lane section of a one-way road: only the right lane is linked.
RightLinkedSection(predecessor, successor) ==
    LaneSection(1, <<Lane(NULL_TAG, NULL_TAG), Lane(predecessor, successor)>>)

\* The shape of validate_links.xodr: road 0 (two lane sections) ends where
\* road 1 (two left lanes, one right lane) starts.
ValidateLinksMap ==
    [roads |->
        <<Road(NULL_VALUE, RoadLinkNotSpecified, RoadLinkToRoad(1, "START"),
               <<LaneSection(1, <<Lane(NULL_TAG, 1), Lane(NULL_TAG, -1)>>),
                 LaneSection(1, <<Lane(1, 1), Lane(-1, -1)>>)>>),
          Road(NULL_VALUE, RoadLinkToRoad(0, "END"), RoadLinkNotSpecified,
               <<LaneSection(2, <<Lane(NULL_TAG, NULL_TAG), Lane(1, NULL_TAG),
                                  Lane(-1, NULL_TAG)>>)>>)>>,
     junctions |-> <<>>]

\* The shape of validate_links_pred_pred_connection.xodr: both roads start
\* at the same point, so the left lane of one road continues as the right
\* lane of the other.
ValidateLinksPredPredMap ==
    [roads |->
        <<Road(NULL_VALUE, RoadLinkToRoad(1, "START"), RoadLinkNotSpecified,
               <<LaneSection(1, <<Lane(-1, NULL_TAG), Lane(1, NULL_TAG)>>)>>),
          Road(NULL_VALUE, RoadLinkToRoad(0, "START"), RoadLinkNotSpecified,
               <<LaneSection(1, <<Lane(-1, NULL_TAG), Lane(1, NULL_TAG)>>)>>)>>,
     junctions |-> <<>>]

\* The shape of validate_links_succ_succ_connection.xodr: both roads end at
\* the same point.
ValidateLinksSuccSuccMap ==
    [roads |->
        <<Road(NULL_VALUE, RoadLinkNotSpecified, RoadLinkToRoad(1, "END"),
               <<LaneSection(1, <<Lane(NULL_TAG, -1), Lane(NULL_TAG, 1)>>)>>),
          Road(NULL_VALUE, RoadLinkNotSpecified, RoadLinkToRoad(0, "END"),
               <<LaneSection(1, <<Lane(NULL_TAG, -1), Lane(NULL_TAG, 1)>>)>>)>>,
     junctions |-> <<>>]

\* The shape of validate_links_junction2.xodr: road 0 enters junction 0,
\* whose connecting roads 1 and 3 both lead to the outgoing road 2.
ValidateLinksJunctionMap ==
    [roads |->
        <<Road(NULL_VALUE, RoadLinkNotSpecified, RoadLinkToJunction(0), <<UnlinkedSection>>),
          Road(0, RoadLinkToRoad(0, "END"), RoadLinkToRoad(2, "START"),
               <<RightLinkedSection(-1, -1)>>),
          Road(NULL_VALUE, RoadLinkToJunction(0), RoadLinkNotSpecified,
               <<RightLinkedSection(-1, NULL_TAG)>>),
          Road(0, RoadLinkToRoad(0, "END"), RoadLinkToRoad(2, "START"),
               <<RightLinkedSection(-1, -1)>>)>>,
     junctions |->
        <<Junction(<<Connection(0, 1, "START", <<LaneLink(-1, -1)>>),
                     Connection(0, 3, "START", <<LaneLink(-1, -1)>>)>>)>>]

\* Two adjacent junction paths, the case validateIncomingConnectingLink
\* hands to validateConnectingConnectingLaneLinks: the connecting road 1 of
\* junction 0 continues as the connecting road 2 of junction 1.
ValidateLinksJunctionPathsMap ==
    [roads |->
        <<Road(NULL_VALUE, RoadLinkNotSpecified, RoadLinkToJunction(0), <<UnlinkedSection>>),
          Road(0, RoadLinkToRoad(0, "END"), RoadLinkToJunction(1),
               <<RightLinkedSection(-1, NULL_TAG)>>),
          Road(1, RoadLinkToJunction(0), RoadLinkNotSpecified,
               <<RightLinkedSection(-1, NULL_TAG)>>)>>,
     junctions |->
        <<Junction(<<Connection(0, 1, "START", <<LaneLink(-1, -1)>>)>>),
          Junction(<<Connection(1, 2, "START", <<LaneLink(-1, -1)>>)>>)>>]

\* The same junction paths, but junction 0 also lists the path from road 2
\* into the end of road 1: both roads name the other as incoming.
InconsistentJunctionPathsMap ==
    [roads |-> ValidateLinksJunctionPathsMap.roads,
     junctions |->
        <<Junction(<<Connection(0, 1, "START", <<LaneLink(-1, -1)>>),
                     Connection(2, 1, "END", <<>>)>>),
          Junction(<<Connection(1, 2, "START", <<LaneLink(-1, -1)>>)>>)>>]

FixtureMaps ==
    {ValidateLinksMap, ValidateLinksPredPredMap, ValidateLinksSuccSuccMap,
     ValidateLinksJunctionMap, ValidateLinksJunctionPathsMap, InconsistentJunctionPathsMap}

\* A road whose two ends attach to the same junction: road 0 ends in
\* junction 0, whose connecting road 1 leads from the end of road 0 back to
\* its start.
LoopRoadMap ==
    [roads |->
        <<Road(NULL_VALUE, RoadLinkToJunction(0), RoadLinkToJunction(0),
               <<RightLinkedSection(-1, NULL_TAG)>>),
          Road(0, RoadLinkToRoad(0, "END"), RoadLinkToRoad(0, "START"),
               <<RightLinkedSection(-1, -1)>>)>>,
     junctions |-> <<Junction(<<Connection(0, 1, "START", <<LaneLink(-1, -1)>>)>>)>>]

\* The maps validateLinks is called on.
Maps == FixtureMaps \cup {LoopRoadMap}

(***************************************************************************)
(* The state machine.                                                      *)
(***************************************************************************)
\* The values a test can hand to the mutators.
RoadIndices == 0..(Len(roads) - 1)

JunctionIndices == 0..(Len(junctions) - 1)

RoadLinks ==
    {RoadLinkNotSpecified}
    \cup {RoadLinkToRoad(r, cp) : r \in RoadIndices, cp \in ContactPoint}
    \cup {RoadLinkToJunction(j) : j \in JunctionIndices}

LaneIDs == (-MaxLaneId)..MaxLaneId

LaneIDOpts == LaneIDs \cup {NULL_TAG}

\* The lane ids that test_laneById accepts for the section.
ValidLaneIDs(section) ==
    {id \in (-numRightLanes(section))..numLeftLanes(section) : id # 0}

\* XodrMap::fromFile(...).extract_value() of a fixture; 'success' of
\* validateLinks starts as true and the error vector empty.
\* No XodrMap is being parsed.
ResolveIdle ==
    /\ roads_ = <<>>
    /\ junctions_ = <<>>
    /\ idToIndexMaps_ = <<>>
    /\ parseErrors = <<>>
    /\ resolvePc = [loop |-> "idle", i |-> 0]

\* parseXml() is not running.
ParseIdle ==
    /\ nextGlobalLaneIndex_ = 0
    /\ totalNumLanes_ = 0
    /\ parsePc = "idle"
    /\ xmlRead = <<>>

\* No function is called on its own.
CallIdle ==
    /\ call = [function |-> "none"]
    /\ returnValue = <<>>

Init ==
    /\ \E map \in Maps :
        /\ roads = map.roads
        /\ junctions = map.junctions
    /\ errors = <<>>
    /\ result = TRUE
    /\ edits = 0
    /\ pc = "edit"
    /\ ResolveIdle
    /\ ParseIdle
    /\ CallIdle

\* Road::test_setPredecessor
SetRoadPredecessor(roadIdx, predecessor) ==
    /\ pc = "edit"
    /\ edits < MaxEdits
    /\ roads' = [roads EXCEPT ![roadIdx + 1].predecessor = predecessor]
    /\ edits' = edits + 1
    /\ UNCHANGED <<junctions, errors, result, pc>>
    /\ UNCHANGED nonLinkVars

\* Road::test_setSuccessor
SetRoadSuccessor(roadIdx, successor) ==
    /\ pc = "edit"
    /\ edits < MaxEdits
    /\ roads' = [roads EXCEPT ![roadIdx + 1].successor = successor]
    /\ edits' = edits + 1
    /\ UNCHANGED <<junctions, errors, result, pc>>
    /\ UNCHANGED nonLinkVars

\* road.test_laneSection(s).test_laneById(id).test_setPredecessor(predecessor)
SetLanePredecessor(roadIdx, laneSectionIdx, id, predecessor) ==
    /\ pc = "edit"
    /\ edits < MaxEdits
    /\ LET section == roads[roadIdx + 1].laneSections[laneSectionIdx + 1]
       IN  roads' = [roads EXCEPT ![roadIdx + 1].laneSections[laneSectionIdx + 1]
                                      .lanes[laneIdToIndex(section, id) + 1]
                                      .predecessor = predecessor]
    /\ edits' = edits + 1
    /\ UNCHANGED <<junctions, errors, result, pc>>
    /\ UNCHANGED nonLinkVars

\* road.test_laneSection(s).test_laneById(id).test_setSuccessor(successor)
SetLaneSuccessor(roadIdx, laneSectionIdx, id, successor) ==
    /\ pc = "edit"
    /\ edits < MaxEdits
    /\ LET section == roads[roadIdx + 1].laneSections[laneSectionIdx + 1]
       IN  roads' = [roads EXCEPT ![roadIdx + 1].laneSections[laneSectionIdx + 1]
                                      .lanes[laneIdToIndex(section, id) + 1]
                                      .successor = successor]
    /\ edits' = edits + 1
    /\ UNCHANGED <<junctions, errors, result, pc>>
    /\ UNCHANGED nonLinkVars

\* Junction::Connection::test_setLaneLinkTarget applied to a lane link list.
setLaneLinkTarget(laneLinks, fromLaneId, toLaneId) ==
    LET matches == {i \in 1..Len(laneLinks) : laneLinks[i].from = fromLaneId}
        first == CHOOSE i \in matches : \A k \in matches : i <= k
    IN  IF matches # {}
        THEN IF toLaneId # NULL_TAG
             THEN [laneLinks EXCEPT ![first].to = toLaneId]
             ELSE SubSeq(laneLinks, 1, first - 1) \o SubSeq(laneLinks, first + 1, Len(laneLinks))
        ELSE IF toLaneId # NULL_TAG
             THEN Append(laneLinks, LaneLink(fromLaneId, toLaneId))
             ELSE laneLinks

SetLaneLinkTarget(junctionIdx, connectionIdx, fromLaneId, toLaneId) ==
    /\ pc = "edit"
    /\ edits < MaxEdits
    /\ junctions' =
           [junctions EXCEPT ![junctionIdx + 1].connections[connectionIdx + 1].laneLinks =
                setLaneLinkTarget(@, fromLaneId, toLaneId)]
    /\ edits' = edits + 1
    /\ UNCHANGED <<roads, errors, result, pc>>
    /\ UNCHANGED nonLinkVars

\* bool res = validateLinks(map, errors);
ValidateLinks ==
    /\ pc = "edit"
    /\ errors' = errors \o validateLinks.errs
    /\ result' = validateLinks.ok
    /\ pc' = "done"
    /\ UNCHANGED <<roads, junctions, edits>>
    /\ UNCHANGED nonLinkVars

\* junctionContainsRoad: some connection of the junction has the road as its
\* connecting road.
junctionContainsRoad(junction, roadIdx) ==
    \E i \in 1..Len(junction.connections) : junction.connections[i].connectingRoad = roadIdx

\* validateJunctionMembership, TRUE when it returns and FALSE when it throws:
\* a road with a junction reference is the connecting road of a connection
\* of that junction, and the connecting road of every connection belongs to
\* the junction of the connection.
validateJunctionMembership ==
    /\ \A i \in RoadIndices :
           hasValue(roads[i + 1].junctionRef) =>
               junctionContainsRoad(junctions[roads[i + 1].junctionRef + 1], i)
    /\ \A i \in JunctionIndices :
           \A k \in 1..Len(junctions[i + 1].connections) :
               roads[junctions[i + 1].connections[k].connectingRoad + 1].junctionRef = i

\* XodrMap::validate() without its last step.
validate_WithoutLinkValidation(attribSCoordsValid) ==
    IF ~attribSCoordsValid THEN "threwLaneAttributes"
    ELSE IF ~validateJunctionMembership THEN "threwJunctionMembership"
    ELSE "validated"

\* XodrMap::validate(): Road::validate() of every road (the sOffset ranges of
\* the lane attributes, which the map of this model does not carry and which
\* are therefore an input), then validateJunctionMembership(), then
\* validateLinks() into a local error vector; an exception is thrown by the
\* first step that fails.  The value is "validated" when the function
\* returns and names the throwing step otherwise.
validate(attribSCoordsValid) ==
    IF ~attribSCoordsValid THEN "threwLaneAttributes"
    ELSE IF ~validateJunctionMembership THEN "threwJunctionMembership"
    ELSE IF validateLinks.errs # <<>> THEN "threwLinkValidation"
    ELSE "validated"

\* map.validate();
Validate ==
    /\ pc = "edit"
    /\ \E attribSCoordsValid \in BOOLEAN : pc' = validate(attribSCoordsValid)
    /\ UNCHANGED <<roads, junctions, errors, result, edits>>
    /\ UNCHANGED nonLinkVars

Next ==
    \/ \E r \in RoadIndices, lnk \in RoadLinks : SetRoadPredecessor(r, lnk)
    \/ \E r \in RoadIndices, lnk \in RoadLinks : SetRoadSuccessor(r, lnk)
    \/ \E r \in RoadIndices :
         \E s \in 0..(Len(roads[r + 1].laneSections) - 1) :
           \E id \in ValidLaneIDs(roads[r + 1].laneSections[s + 1]), to \in LaneIDOpts :
              SetLanePredecessor(r, s, id, to)
    \/ \E r \in RoadIndices :
         \E s \in 0..(Len(roads[r + 1].laneSections) - 1) :
           \E id \in ValidLaneIDs(roads[r + 1].laneSections[s + 1]), to \in LaneIDOpts :
              SetLaneSuccessor(r, s, id, to)
    \/ \E j \in JunctionIndices :
         \E c \in 0..(Len(junctions[j + 1].connections) - 1) :
           \E from \in LaneIDs, to \in LaneIDOpts : SetLaneLinkTarget(j, c, from, to)
    \/ ValidateLinks
    \/ Validate

Spec == Init /\ [][Next]_vars

\* Every fixture but the inconsistent one passes validation as loaded.
FixturesPass ==
    (/\ pc = "done"
     /\ edits = 0
     /\ [roads |-> roads, junctions |-> junctions] \in FixtureMaps \ {InconsistentJunctionPathsMap})
        => (result /\ errors = <<>>)

(***************************************************************************)
(* Vocabulary of the properties.                                           *)
(***************************************************************************)
Done == pc = "done"

RoadContactPoints == {RoadContactPointKey(r, cp) : r \in RoadIndices, cp \in ContactPoint}

ConnectionsOf(junctionIdx) ==
    {junctions[junctionIdx + 1].connections[i] :
        i \in 1..Len(junctions[junctionIdx + 1].connections)}

InJunction(roadIdx) == roads[roadIdx + 1].junctionRef # NULL_VALUE

\* The contact point a road link names.
TargetOf(roadLnk) == RoadContactPointKey(roadLnk.elementRef, roadLnk.contactPoint)

LinksToRoad(a, b) ==
    /\ roadLinkForRoadContactPoint(a).elementType = "ROAD"
    /\ TargetOf(roadLinkForRoadContactPoint(a)) = b

\* The contact points the link of contact point a reaches: the target of a
\* road link, or the connecting roads of the connections of the linked
\* junction whose incoming road is the road of a.
ReachedFrom(a) ==
    LET roadLnk == roadLinkForRoadContactPoint(a)
    IN  CASE roadLnk.elementType = "ROAD" -> {TargetOf(roadLnk)}
          [] roadLnk.elementType = "JUNCTION" ->
                {RoadContactPointKey(c.connectingRoad, c.contactPoint) :
                    c \in {d \in ConnectionsOf(roadLnk.elementRef) :
                              d.incomingRoad = a.roadIdx}}
          [] OTHER -> {}

Reported(error) == \E k \in 1..Len(errors) : errors[k] = error

TimesReported(error) == Cardinality({k \in 1..Len(errors) : errors[k] = error})

ReportedKind(kind) == \E k \in 1..Len(errors) : errors[k].kind = kind

RoadLinkErrorKinds ==
    {"RoadBackLinkNotSpecifiedError", "RoadBackLinkNotSpecifiedInJunctionError",
     "RoadLinkMisMatchError", "DirectLinkToJunctionRoadError",
     "InconsistentJunctionPathDirectionsError"}

\* The positions in 'errors' of the road link errors about the pair (a, b).
RoadLinkErrorsFor(a, b) ==
    {k \in 1..Len(errors) :
        /\ errors[k].kind \in RoadLinkErrorKinds
        /\ errors[k].aContactPointKey = a
        /\ errors[k].bContactPointKey = b}

\* Junction j holds the incoming connection from the road of b to the road
\* of a at a's contact point.
HasIncomingConnectionBack(junctionIdx, b, a) ==
    \E c \in ConnectionsOf(junctionIdx) :
        /\ c.incomingRoad = b.roadIdx
        /\ c.connectingRoad = a.roadIdx
        /\ c.contactPoint = a.contactPoint

\* Junction j holds a connection which enters the road of a at the end
\* opposite to a: the road of a leaves the junction through a.
HasOutgoingConnectionBack(junctionIdx, a) ==
    \E c \in ConnectionsOf(junctionIdx) :
        /\ c.connectingRoad = a.roadIdx
        /\ c.contactPoint # a.contactPoint

(***************************************************************************)
(* C1, as stated: if validateLinks returns true, then for every contact    *)
(* point a and every contact point b its link reaches, the link of b is a  *)
(* road link to a or a junction link to a junction with a connection that  *)
(* joins the road of b and the road of a.                                  *)
(***************************************************************************)
LeadsBackJoining(b, a) ==
    LET back == roadLinkForRoadContactPoint(b)
    IN  \/ back.elementType = "ROAD" /\ TargetOf(back) = a
        \/ /\ back.elementType = "JUNCTION"
           /\ \E c \in ConnectionsOf(back.elementRef) :
                 {c.incomingRoad, c.connectingRoad} = {a.roadIdx, b.roadIdx}

C1_LinkSymmetryJoining ==
    (Done /\ result) =>
        \A a \in RoadContactPoints : \A b \in ReachedFrom(a) : LeadsBackJoining(b, a)

(***************************************************************************)
(* C1, amended: if validateLinks returns true, then for every contact      *)
(* point a and every contact point b its link reaches, the link of b is a  *)
(* road link to a, or a junction link to a junction which holds either the *)
(* connection from the road of b into a, or a connection that enters the   *)
(* road of a at its other end (whatever the incoming road of it is).       *)
(***************************************************************************)
LeadsBack(b, a) ==
    LET back == roadLinkForRoadContactPoint(b)
    IN  \/ back.elementType = "ROAD" /\ TargetOf(back) = a
        \/ /\ back.elementType = "JUNCTION"
           /\ \/ HasIncomingConnectionBack(back.elementRef, b, a)
              \/ HasOutgoingConnectionBack(back.elementRef, a)

C1_LinkSymmetry ==
    (Done /\ result) =>
        \A a \in RoadContactPoints : \A b \in ReachedFrom(a) : LeadsBack(b, a)

\* A map passes validation in which one contact point reaches a road
\* directly and another one reaches a road through a junction.
C1_Witness ==
    /\ Done
    /\ result
    /\ \E a \in RoadContactPoints :
          /\ roadLinkForRoadContactPoint(a).elementType = "ROAD"
          /\ \E b \in ReachedFrom(a) : roadLinkForRoadContactPoint(b).elementType = "JUNCTION"
    /\ \E a \in RoadContactPoints :
          /\ roadLinkForRoadContactPoint(a).elementType = "JUNCTION"
          /\ ReachedFrom(a) # {}

(***************************************************************************)
(* C2: validateLinks returns false if and only if it appended at least one *)
(* error to the (initially empty) error vector.                            *)
(***************************************************************************)
C2_FalseIffErrorAppended == Done => ((result = FALSE) <=> (errors # <<>>))

(***************************************************************************)
(* C3: for a direct road link from a to b, where the road of b is not part *)
(* of a junction, there is exactly one road link error about (a, b) and it *)
(* is RoadBackLinkNotSpecifiedError when the link of b is not specified,   *)
(* RoadLinkMisMatchError naming the actual target when the link of b is a  *)
(* road link to another contact point, and                                 *)
(* RoadBackLinkNotSpecifiedInJunctionError when the link of b is a         *)
(* junction link and the junction has no connection back to a; there is no *)
(* road link error about (a, b) when the link of b is a road link to a.    *)
(***************************************************************************)
OnlyRoadLinkError(a, b, error) ==
    /\ Cardinality(RoadLinkErrorsFor(a, b)) = 1
    /\ \A k \in RoadLinkErrorsFor(a, b) : errors[k] = error

C3_DirectLinkErrors ==
    Done =>
        \A a \in RoadContactPoints :
            LET roadLnk == roadLinkForRoadContactPoint(a)
                b == TargetOf(roadLnk)
                back == roadLinkForRoadContactPoint(b)
            IN  (roadLnk.elementType = "ROAD" /\ ~InJunction(b.roadIdx)) =>
                    CASE back.elementType = "NOT_SPECIFIED" ->
                            OnlyRoadLinkError(a, b, RoadBackLinkNotSpecifiedError(a, b, -1))
                      [] back.elementType = "ROAD" /\ TargetOf(back) # a ->
                            OnlyRoadLinkError(a, b,
                                RoadLinkMisMatchError(a, b, TargetOf(back), -1))
                      [] back.elementType = "ROAD" /\ TargetOf(back) = a ->
                            RoadLinkErrorsFor(a, b) = {}
                      [] back.elementType = "JUNCTION" ->
                            (/\ ~HasIncomingConnectionBack(back.elementRef, b, a)
                             /\ ~HasOutgoingConnectionBack(back.elementRef, a))
                                => OnlyRoadLinkError(a, b,
                                       RoadBackLinkNotSpecifiedInJunctionError(
                                           a, b, -1, back.elementRef))

\* A direct link whose target links to another contact point is reported.
C3_WitnessMisMatch ==
    /\ Done
    /\ \E k \in 1..Len(errors) :
          errors[k].kind = "RoadLinkMisMatchError" /\ errors[k].aToBJunctionIdx = -1

(***************************************************************************)
(* C4: when contact point a links to junction J, every connection of J     *)
(* whose incoming road is the road of a is checked: as often as J lists a  *)
(* connection from the road of a to contact point b, validateLinks reports *)
(* RoadBackLinkNotSpecifiedError (if the link of b is not specified) or    *)
(* RoadLinkMisMatchError (if it is a road link to something other than a)  *)
(* for (a, b), with aToBJunctionIdx = J.                                   *)
(***************************************************************************)
ConnectionsTo(junctionIdx, a, b) ==
    {i \in 1..Len(junctions[junctionIdx + 1].connections) :
        LET c == junctions[junctionIdx + 1].connections[i]
        IN  /\ c.incomingRoad = a.roadIdx
            /\ c.connectingRoad = b.roadIdx
            /\ c.contactPoint = b.contactPoint}

C4_EveryIncomingConnectionChecked ==
    Done =>
        \A a \in RoadContactPoints :
            LET roadLnk == roadLinkForRoadContactPoint(a)
                J == roadLnk.elementRef
            IN  roadLnk.elementType = "JUNCTION" =>
                    \A b \in ReachedFrom(a) :
                        LET back == roadLinkForRoadContactPoint(b)
                        IN  /\ back.elementType = "NOT_SPECIFIED" =>
                                TimesReported(RoadBackLinkNotSpecifiedError(a, b, J))
                                    = Cardinality(ConnectionsTo(J, a, b))
                            /\ (back.elementType = "ROAD" /\ TargetOf(back) # a) =>
                                TimesReported(RoadLinkMisMatchError(a, b, TargetOf(back), J))
                                    = Cardinality(ConnectionsTo(J, a, b))

\* A connection other than the first one of its junction has a connecting
\* road without a back link, and the error about it is reported.
C4_Witness ==
    /\ Done
    /\ \E a \in RoadContactPoints :
          LET roadLnk == roadLinkForRoadContactPoint(a)
          IN  /\ roadLnk.elementType = "JUNCTION"
              /\ \E b \in ReachedFrom(a) :
                    /\ roadLinkForRoadContactPoint(b).elementType = "NOT_SPECIFIED"
                    /\ 1 \notin ConnectionsTo(roadLnk.elementRef, a, b)
                    /\ Reported(RoadBackLinkNotSpecifiedError(a, b, roadLnk.elementRef))

(***************************************************************************)
(* C5, as stated: DirectLinkToJunctionRoadError is reported for (a, b)     *)
(* exactly when a links directly to b, the road of a does not belong to a  *)
(* junction and the road of b belongs to a junction.                       *)
(***************************************************************************)
C5_DirectLinkFromNonJunctionRoad ==
    Done =>
        \A a \in RoadContactPoints, b \in RoadContactPoints :
            Reported(DirectLinkToJunctionRoadError(a, b))
                <=> (LinksToRoad(a, b) /\ ~InJunction(a.roadIdx) /\ InJunction(b.roadIdx))

(***************************************************************************)
(* C5, amended: DirectLinkToJunctionRoadError is reported for (a, b)       *)
(* exactly when a links directly to b and the road of b belongs to a       *)
(* junction, whether or not the road of a belongs to a junction.           *)
(***************************************************************************)
C5_DirectLinkToJunctionRoad ==
    Done =>
        \A a \in RoadContactPoints, b \in RoadContactPoints :
            Reported(DirectLinkToJunctionRoadError(a, b))
                <=> (LinksToRoad(a, b) /\ InJunction(b.roadIdx))

\* The error is reported for a direct link between two junction roads.
C5_Witness ==
    /\ Done
    /\ \E a \in RoadContactPoints, b \in RoadContactPoints :
          /\ Reported(DirectLinkToJunctionRoadError(a, b))
          /\ InJunction(a.roadIdx)

(***************************************************************************)
(* C6: when a reaches the connecting road contact point b through a        *)
(* connection of junction J and the link of b is a junction link to J2,    *)
(* InconsistentJunctionPathDirectionsError is reported for (a, b, J, J2)   *)
(* exactly when J2 holds a connection whose incoming road is the road of b *)
(* and whose connecting road is the road of a at a's contact point.        *)
(***************************************************************************)
C6_InconsistentJunctionPaths ==
    Done =>
        \A a \in RoadContactPoints :
            LET roadLnk == roadLinkForRoadContactPoint(a)
                J == roadLnk.elementRef
            IN  roadLnk.elementType = "JUNCTION" =>
                    \A b \in ReachedFrom(a) :
                        LET back == roadLinkForRoadContactPoint(b)
                            J2 == back.elementRef
                        IN  back.elementType = "JUNCTION" =>
                                (Reported(InconsistentJunctionPathDirectionsError(a, b, J, J2))
                                    <=> HasIncomingConnectionBack(J2, b, a))

\* The error is reported although the junction of the back link also holds
\* an outgoing connection of the road of a.
C6_Witness ==
    /\ Done
    /\ \E a \in RoadContactPoints :
          /\ roadLinkForRoadContactPoint(a).elementType = "JUNCTION"
          /\ \E b \in ReachedFrom(a) :
                LET back == roadLinkForRoadContactPoint(b)
                IN  /\ back.elementType = "JUNCTION"
                    /\ HasOutgoingConnectionBack(back.elementRef, a)
                    /\ Reported(InconsistentJunctionPathDirectionsError(
                                    a, b, roadLinkForRoadContactPoint(a).elementRef,
                                    back.elementRef))

(***************************************************************************)
(* Vocabulary of the lane link properties.                                 *)
(***************************************************************************)
\* The two directions of every pair of adjacent lane sections of a road.
InternalSectionPairs ==
    UNION {UNION {{<<LaneSectionContactPointKey(r, i, "END"),
                     LaneSectionContactPointKey(r, i + 1, "START")>>,
                   <<LaneSectionContactPointKey(r, i + 1, "START"),
                     LaneSectionContactPointKey(r, i, "END")>>} :
                        i \in 0..(Len(roads[r + 1].laneSections) - 2)} :
              r \in RoadIndices}

\* The direct road links whose target road is not part of a junction.
DirectRoadPairs ==
    {p \in RoadContactPoints \X RoadContactPoints :
        LinksToRoad(p[1], p[2]) /\ ~InJunction(p[2].roadIdx)}

SectionPairOf(p) ==
    <<fromRoadToLaneSectionContactPointKey(p[1]), fromRoadToLaneSectionContactPointKey(p[2])>>

\* The direct road links which the target answers with a road link.
ReciprocatedSectionPairs ==
    {SectionPairOf(p) : p \in {q \in DirectRoadPairs : LinksToRoad(q[2], q[1])}}

\* The direct road links which the target answers with a junction link to a
\* junction holding a connection back.
JunctionBackedSectionPairs ==
    {SectionPairOf(p) :
        p \in {q \in DirectRoadPairs :
                  LET back == roadLinkForRoadContactPoint(q[2])
                  IN  /\ back.elementType = "JUNCTION"
                      /\ \/ HasIncomingConnectionBack(back.elementRef, q[2], q[1])
                         \/ HasOutgoingConnectionBack(back.elementRef, q[1])}}

\* The section pairs whose back links are stored in the lanes of the target.
BackLinkCheckedPairs == InternalSectionPairs \cup ReciprocatedSectionPairs

\* The section pairs whose lanes store the links which are range checked.
RangeCheckedPairs == BackLinkCheckedPairs \cup JunctionBackedSectionPairs

SectionOf(key) == roads[key.roadIdx + 1].laneSections[key.laneSectionIdx + 1]

\* The links [a |-> from lane, b |-> target] which the lanes of the first
\* section of the pair store towards the second section.
LaneLinksAcross(pair) ==
    LET linkType == linkTypeForContactPoint(pair[1].contactPoint)
    IN  {[a |-> a, b |-> link(laneById(SectionOf(pair[1]), a), linkType)] :
            a \in {id \in ValidLaneIDs(SectionOf(pair[1])) :
                      hasLink(laneById(SectionOf(pair[1]), id), linkType)}}

\* The link which lane b of the second section stores towards the first.
BackLinkOf(pair, b) ==
    link(laneById(SectionOf(pair[2]), b), linkTypeForContactPoint(pair[2].contactPoint))

OnSameSide(a, b) == (a > 0) = (b > 0)

BothStartOrBothEnd(pair) == pair[1].contactPoint = pair[2].contactPoint

InRangeOf(section, b) ==
    b >= -(Len(section.lanes) - section.numLeftLanes) /\ b <= section.numLeftLanes

ValidTarget(pair, lnk) ==
    /\ lnk.b # 0
    /\ InRangeOf(SectionOf(pair[2]), lnk.b)
    /\ OnSameSide(lnk.a, lnk.b) # BothStartOrBothEnd(pair)

\* The positions in 'errors' of the lane link errors about lane a of the
\* first section of the pair.
LaneLinkErrorsFor(pair, a) ==
    {k \in 1..Len(errors) :
        \/ /\ errors[k].kind \in {"LaneBackLinkNotSpecified", "LaneLinkMisMatch",
                                  "LaneLinkTargetOutOfRange", "LaneLinkOpposingDirections"}
           /\ errors[k].aSectionContactPointKey = pair[1]
           /\ errors[k].bSectionContactPointKey = pair[2]
           /\ errors[k].aLaneId = a
        \/ /\ errors[k].kind = "LaneLinkToCenterLaneError"
           /\ errors[k].aSectionContactPointKey = pair[1]
           /\ errors[k].bSectionContactPointKey = pair[2]
           /\ errors[k].fromLaneId = a}

OnlyLaneLinkError(pair, a, error) ==
    /\ Cardinality(LaneLinkErrorsFor(pair, a)) = 1
    /\ \A k \in LaneLinkErrorsFor(pair, a) : errors[k] = error

(***************************************************************************)
(* C7: if validateLinks returns true, then in every road and for every     *)
(* pair of adjacent lane sections i and i+1, lane a of section i has       *)
(* successor b if and only if lane b of section i+1 has predecessor a.     *)
(***************************************************************************)
C7_InternalLaneLinkSymmetry ==
    (Done /\ result) =>
        \A r \in RoadIndices :
            \A i \in 1..(Len(roads[r + 1].laneSections) - 1) :
                LET section == roads[r + 1].laneSections[i]
                    nextSection == roads[r + 1].laneSections[i + 1]
                IN  \A a \in ValidLaneIDs(section), b \in ValidLaneIDs(nextSection) :
                        (laneById(section, a).successor = b)
                            <=> (laneById(nextSection, b).predecessor = a)

\* validateLinks returns true for an edited map with a road of two lane
\* sections whose lanes are linked.
C7_Witness ==
    /\ Done
    /\ result
    /\ edits > 0
    /\ \E r \in RoadIndices :
          /\ Len(roads[r + 1].laneSections) > 1
          /\ \E a \in ValidLaneIDs(roads[r + 1].laneSections[1]) :
                laneById(roads[r + 1].laneSections[1], a).successor
                    \in ValidLaneIDs(roads[r + 1].laneSections[2])

(***************************************************************************)
(* C8: for every lane a whose link targets a valid lane b (non-zero, in    *)
(* range, on the correct side) of a section which stores the back links in *)
(* its lanes, the errors about that link are exactly one                   *)
(* LaneBackLinkNotSpecified(a, b) if the back link of b is not set,        *)
(* exactly one LaneLinkMisMatch(a, b, c) if it is set to another lane c,   *)
(* and none if it is a.                                                    *)
(***************************************************************************)
C8_BackLinkErrors ==
    Done =>
        \A pair \in BackLinkCheckedPairs :
            \A lnk \in LaneLinksAcross(pair) :
                ValidTarget(pair, lnk) =>
                    LET c == BackLinkOf(pair, lnk.b)
                    IN  CASE c = NULL_TAG ->
                                OnlyLaneLinkError(pair, lnk.a,
                                    LaneBackLinkNotSpecified(pair[1], pair[2], lnk.a, lnk.b))
                          [] c = lnk.a -> LaneLinkErrorsFor(pair, lnk.a) = {}
                          [] OTHER ->
                                OnlyLaneLinkError(pair, lnk.a,
                                    LaneLinkMisMatch(pair[1], pair[2], lnk.a, lnk.b, c))

\* A valid link finds the back link of its target naming a different lane,
\* and the mismatch is reported.
C8_Witness ==
    /\ Done
    /\ \E pair \in BackLinkCheckedPairs :
          \E lnk \in LaneLinksAcross(pair) :
              /\ ValidTarget(pair, lnk)
              /\ BackLinkOf(pair, lnk.b) \notin {NULL_TAG, lnk.a}
              /\ Reported(LaneLinkMisMatch(pair[1], pair[2], lnk.a, lnk.b,
                                           BackLinkOf(pair, lnk.b)))

(***************************************************************************)
(* C9: for a link which a lane a stores to a non-center lane b across two  *)
(* contact points, LaneLinkOpposingDirections is reported if and only if   *)
(* (a and b are on the same side) equals (the contact points are both      *)
(* START or both END); a link between lanes of the same side is accepted   *)
(* exactly when one contact point is START and the other is END.           *)
(***************************************************************************)
C9_OpposingDirections ==
    Done =>
        \A pair \in RangeCheckedPairs :
            \A lnk \in LaneLinksAcross(pair) :
                lnk.b # 0 =>
                    LET reported ==
                            Reported(LaneLinkOpposingDirections(pair[1], pair[2], lnk.a, lnk.b))
                    IN  /\ reported <=> (OnSameSide(lnk.a, lnk.b) = BothStartOrBothEnd(pair))
                        /\ OnSameSide(lnk.a, lnk.b) =>
                              (~reported <=> ~BothStartOrBothEnd(pair))

\* The error is reported for two lanes of the same side of two roads which
\* meet start to start or end to end.
C9_Witness ==
    /\ Done
    /\ \E pair \in RangeCheckedPairs :
          /\ BothStartOrBothEnd(pair)
          /\ \E lnk \in LaneLinksAcross(pair) :
                /\ lnk.b # 0
                /\ OnSameSide(lnk.a, lnk.b)
                /\ Reported(LaneLinkOpposingDirections(pair[1], pair[2], lnk.a, lnk.b))

(***************************************************************************)
(* C10, as stated: whenever the target b of a lane link is non-zero and    *)
(* outside [-numRightLanes(toSection), numLeftLanes(toSection)],           *)
(* LaneLinkTargetOutOfRange is reported for that link.                     *)
(***************************************************************************)
C10_TargetOutOfRange ==
    Done =>
        \A pair \in RangeCheckedPairs :
            \A lnk \in LaneLinksAcross(pair) :
                (lnk.b # 0 /\ ~InRangeOf(SectionOf(pair[2]), lnk.b)) =>
                    Reported(LaneLinkTargetOutOfRange(pair[1], pair[2], lnk.a, lnk.b))

(***************************************************************************)
(* C10, amended: whenever the target b of a lane link is non-zero, on the  *)
(* correct side for the two contact points and outside                     *)
(* [-numRightLanes(toSection), numLeftLanes(toSection)],                   *)
(* LaneLinkTargetOutOfRange is reported for that link.                     *)
(***************************************************************************)
C10_CorrectSideTargetOutOfRange ==
    Done =>
        \A pair \in RangeCheckedPairs :
            \A lnk \in LaneLinksAcross(pair) :
                (/\ lnk.b # 0
                 /\ OnSameSide(lnk.a, lnk.b) # BothStartOrBothEnd(pair)
                 /\ ~InRangeOf(SectionOf(pair[2]), lnk.b)) =>
                    Reported(LaneLinkTargetOutOfRange(pair[1], pair[2], lnk.a, lnk.b))

\* A lane links to a lane id of the correct side which the target section
\* does not have, and the error is reported.
C10_Witness ==
    /\ Done
    /\ \E pair \in RangeCheckedPairs :
          \E lnk \in LaneLinksAcross(pair) :
              /\ lnk.b # 0
              /\ ~InRangeOf(SectionOf(pair[2]), lnk.b)
              /\ OnSameSide(lnk.a, lnk.b) # BothStartOrBothEnd(pair)
              /\ Reported(LaneLinkTargetOutOfRange(pair[1], pair[2], lnk.a, lnk.b))

(***************************************************************************)
(* C11: if validateLinks returns true, then for every connection of a      *)
(* junction J with incoming road A and connecting road C at contact point  *)
(* cp, where A links to J and C links back to A at cp, the connection      *)
(* holds a lane link from lane f of A to lane t of C if and only if lane t *)
(* of the section of C at cp has its link of the type of cp set to f.      *)
(***************************************************************************)
C11_ConnectionLaneLinksMirrorLanes ==
    (Done /\ result) =>
        \A a \in RoadContactPoints :
            LET roadLnk == roadLinkForRoadContactPoint(a)
                connections == junctions[roadLnk.elementRef + 1].connections
            IN  roadLnk.elementType = "JUNCTION" =>
                    \A i \in 1..Len(connections) :
                        LET c == RoadContactPointKey(connections[i].connectingRoad,
                                                     connections[i].contactPoint)
                            aSection == SectionOf(fromRoadToLaneSectionContactPointKey(a))
                            cSection == SectionOf(fromRoadToLaneSectionContactPointKey(c))
                        IN  (connections[i].incomingRoad = a.roadIdx /\ LinksToRoad(c, a)) =>
                                \A f \in ValidLaneIDs(aSection), t \in ValidLaneIDs(cSection) :
                                    (\E k \in 1..Len(connections[i].laneLinks) :
                                        connections[i].laneLinks[k] = LaneLink(f, t))
                                    <=> (link(laneById(cSection, t),
                                              linkTypeForContactPoint(c.contactPoint)) = f)

(***************************************************************************)
(* C12.  XodrMap::validate() and link validation.                          *)
(***************************************************************************)
\* The outcomes of a finished validate() call.
ValidateOutcomes == {"validated", "threwLaneAttributes", "threwJunctionMembership", "threwLinkValidation"}

\* validate() was called on a map whose lane attribute offsets and whose
\* junction membership are valid.
ValidateCalledOnMemberValidMap ==
    /\ pc \in ValidateOutcomes
    /\ pc # "threwLaneAttributes"
    /\ validateJunctionMembership

\* C12 as stated: validate() does not perform link validation, so a map whose
\* lane attribute offsets and junction membership are valid passes validate()
\* without an exception, also when validateLinks would report errors for it.
C12_ValidateIgnoresLinks ==
    ValidateCalledOnMemberValidMap => pc = "validated"

\* C12 amended: validate() performs link validation as its last step.  A map
\* whose lane attribute offsets and junction membership are valid passes
\* validate() without an exception exactly when validateLinks appends no
\* error for it, and otherwise validate() throws from the link validation.
C12_ValidateRunsLinkValidation ==
    ValidateCalledOnMemberValidMap =>
        /\ (pc = "validated") <=> (validateLinks.errs = <<>>)
        /\ (pc # "validated") => (pc = "threwLinkValidation")

\* validate() threw because of a link defect of an otherwise valid map.
C12_Witness ==
    /\ ValidateCalledOnMemberValidMap
    /\ pc = "threwLinkValidation"
    /\ validateLinks.errs # <<>>
    /\ edits = 1

(***************************************************************************)
(* Reference resolution at the end of XodrMap::parseXml().                 *)
(*                                                                         *)
(* The roads and junctions of the map under construction hold their cross  *)
(* references as XodrObjectReferences: the id string read from the file    *)
(* and an index that resolveReferences() fills in.  The field resolveCalls *)
(* of a reference is a history field: the number of resolve() calls made   *)
(* on it.                                                                  *)
(***************************************************************************)
\* The largest number of <road> elements of a document.
MaxRoads == 2

\* The largest number of <junction> elements of a document.
MaxJunctions == 2

\* XodrObjectReference::INVALID_VALUE, the index of an unresolved reference.
INVALID_VALUE == -2

\* XodrInvalidations::GEOMETRY, CONNECTIVITY and ALL (a bit mask).
GEOMETRY == 1

CONNECTIVITY == 2

ALL == GEOMETRY + CONNECTIVITY

\* XodrParseError(data, invalidations)
XodrParseError(data, invalidations) == [data |-> data, invalidations |-> invalidations]

invalidatesRoadGeometry(error) == (error.invalidations % 2) = 1

invalidatesConnectivity(error) == ((error.invalidations \div 2) % 2) = 1

\* XodrParseResult::hasValidGeometry over the errors of a result.
hasValidGeometry(errs) == ~\E k \in 1..Len(errs) : invalidatesRoadGeometry(errs[k])

\* XodrParseResult::hasValidConnectivity over the errors of a result.
hasValidConnectivity(errs) == ~\E k \in 1..Len(errs) : invalidatesConnectivity(errs[k])

\* XodrParseResult::extract_value: TRUE when it throws.
extract_value_throws(errs) ==
    \E k \in 1..Len(errs) : invalidatesRoadGeometry(errs[k]) \/ invalidatesConnectivity(errs[k])

\* XodrObjectReference::parse
parseXodrObjectReference(txt) == [id |-> txt, index |-> INVALID_VALUE, resolveCalls |-> 0]

\* resolve() taking an id that is not in the map for a null reference.
resolve_UnknownIdIsNull(ref, idToIndex) ==
    IF ref.id \notin DOMAIN idToIndex
    THEN [value |-> [ref EXCEPT !.index = NULL_VALUE, !.resolveCalls = @ + 1], threw |-> FALSE]
    ELSE [value |-> [ref EXCEPT !.index = idToIndex[ref.id], !.resolveCalls = @ + 1], threw |-> FALSE]

\* XodrObjectReference::resolve(idToIndex, objTypeName).  The value is the
\* reference after the call and whether the call threw.
resolve(ref, idToIndex) ==
    IF ref.id \notin DOMAIN idToIndex
    THEN [value |-> [ref EXCEPT !.resolveCalls = @ + 1], threw |-> TRUE]
    ELSE [value |-> [ref EXCEPT !.index = idToIndex[ref.id], !.resolveCalls = @ + 1], threw |-> FALSE]

\* XodrObjectReference::resolve(idToIndex, nullValue, objTypeName)
resolveNullable(ref, idToIndex, nullValue) ==
    IF ref.id = nullValue
    THEN [value |-> [ref EXCEPT !.index = NULL_VALUE, !.resolveCalls = @ + 1], threw |-> FALSE]
    ELSE resolve(ref, idToIndex)

\* RoadLink::resolveReferences
resolveRoadLinkReferences(roadLnk, idToIndexMaps) ==
    CASE roadLnk.elementType = "NOT_SPECIFIED" -> [value |-> roadLnk, threw |-> FALSE]
      [] roadLnk.elementType = "ROAD" ->
            LET r == resolve(roadLnk.elementRef, idToIndexMaps.roadIdToIndex_)
            IN  [value |-> [roadLnk EXCEPT !.elementRef = r.value], threw |-> r.threw]
      [] roadLnk.elementType = "JUNCTION" ->
            LET r == resolve(roadLnk.elementRef, idToIndexMaps.junctionIdToIndex_)
            IN  [value |-> [roadLnk EXCEPT !.elementRef = r.value], threw |-> r.threw]

\* NeighborLink::resolveReferences
resolveNeighborLinkReferences(neighborLnk, idToIndexMaps) ==
    IF neighborLnk.isSpecified
    THEN LET r == resolve(neighborLnk.elementRef, idToIndexMaps.roadIdToIndex_)
         IN  [value |-> [neighborLnk EXCEPT !.elementRef = r.value], threw |-> r.threw]
    ELSE [value |-> neighborLnk, threw |-> FALSE]

\* RoadLinks::resolveReferences: predecessor, successor, left and right
\* neighbor in this order; an exception ends the function.
resolveRoadLinksReferences(links, idToIndexMaps) ==
    LET p == resolveRoadLinkReferences(links.predecessor, idToIndexMaps)
        afterP == [links EXCEPT !.predecessor = p.value]
        s == resolveRoadLinkReferences(links.successor, idToIndexMaps)
        afterS == [afterP EXCEPT !.successor = s.value]
        l == resolveNeighborLinkReferences(links.leftNeighbor, idToIndexMaps)
        afterL == [afterS EXCEPT !.leftNeighbor = l.value]
        r == resolveNeighborLinkReferences(links.rightNeighbor, idToIndexMaps)
        afterR == [afterL EXCEPT !.rightNeighbor = r.value]
    IN  IF p.threw THEN [value |-> afterP, threw |-> TRUE]
        ELSE IF s.threw THEN [value |-> afterS, threw |-> TRUE]
        ELSE IF l.threw THEN [value |-> afterL, threw |-> TRUE]
        ELSE [value |-> afterR, threw |-> r.threw]

\* Road::resolveReferences: the junction reference, with "-1" as its null
\* value, and then the links.
resolveRoadReferences(road, idToIndexMaps) ==
    LET j == resolveNullable(road.junctionRef, idToIndexMaps.junctionIdToIndex_, "-1")
        afterJ == [road EXCEPT !.junctionRef = j.value]
        l == resolveRoadLinksReferences(road.links, idToIndexMaps)
    IN  IF j.threw THEN [value |-> afterJ, threw |-> TRUE]
        ELSE [value |-> [afterJ EXCEPT !.links = l.value], threw |-> l.threw]

\* Junction::Connection::resolveReferences
resolveConnectionReferences(connection, idToIndexMaps) ==
    LET i == resolve(connection.incomingRoad, idToIndexMaps.roadIdToIndex_)
        afterI == [connection EXCEPT !.incomingRoad = i.value]
        c == resolve(connection.connectingRoad, idToIndexMaps.roadIdToIndex_)
    IN  IF i.threw THEN [value |-> afterI, threw |-> TRUE]
        ELSE [value |-> [afterI EXCEPT !.connectingRoad = c.value], threw |-> c.threw]

\* Junction::resolveReferences over the connections from index k on.
RECURSIVE resolveConnectionsFrom(_, _, _)
resolveConnectionsFrom(connections, k, idToIndexMaps) ==
    IF k > Len(connections) THEN [value |-> connections, threw |-> FALSE]
    ELSE LET c == resolveConnectionReferences(connections[k], idToIndexMaps)
             after == [connections EXCEPT ![k] = c.value]
         IN  IF c.threw THEN [value |-> after, threw |-> TRUE]
             ELSE resolveConnectionsFrom(after, k + 1, idToIndexMaps)

\* Junction::resolveReferences
resolveJunctionReferences(junction, idToIndexMaps) ==
    LET c == resolveConnectionsFrom(junction.connections, 1, idToIndexMaps)
    IN  [value |-> [junction EXCEPT !.connections = c.value], threw |-> c.threw]

(***************************************************************************)
(* The parsed documents resolveReferences() is started on.                 *)
(***************************************************************************)
\* A <predecessor> or <successor> element as RoadLink::parseXml returns it.
ParsedRoadLink(elementType, elementId) ==
    [elementType |-> elementType, elementRef |-> parseXodrObjectReference(elementId)]

\* RoadLink(), the value of an absent <predecessor> or <successor>.
AbsentRoadLink == ParsedRoadLink("NOT_SPECIFIED", "")

\* A <neighbor> element as NeighborLink::parseXml returns it.
ParsedNeighborLink(elementId) ==
    [isSpecified |-> TRUE, elementRef |-> parseXodrObjectReference(elementId)]

\* NeighborLink(), the value of an absent <neighbor>.
AbsentNeighborLink == [isSpecified |-> FALSE, elementRef |-> parseXodrObjectReference("")]

ParsedRoadLinks(predecessor, successor, leftNeighbor, rightNeighbor) ==
    [predecessor |-> predecessor, successor |-> successor,
     leftNeighbor |-> leftNeighbor, rightNeighbor |-> rightNeighbor]

\* A <road> element as Road::parseXml returns it (id, junction and links).
ParsedRoad(id, junction, links) ==
    [id |-> id, junctionRef |-> parseXodrObjectReference(junction), links |-> links]

ParsedConnection(incomingRoad, connectingRoad) ==
    [incomingRoad |-> parseXodrObjectReference(incomingRoad),
     connectingRoad |-> parseXodrObjectReference(connectingRoad)]

\* A <junction> element as Junction::parseXml returns it.
ParsedJunction(id, connections) == [id |-> id, connections |-> connections]

\* The junction attribute and the <link> children of the roads of the
\* documents: ids "1" and "2" may exist in the map, no object has id "9".
RoadReferenceShapes ==
    { <<"-1", ParsedRoadLinks(AbsentRoadLink, AbsentRoadLink, AbsentNeighborLink, AbsentNeighborLink)>>,
      <<"1", ParsedRoadLinks(ParsedRoadLink("ROAD", "1"), ParsedRoadLink("JUNCTION", "1"),
                              ParsedNeighborLink("2"), AbsentNeighborLink)>>,
      <<"9", ParsedRoadLinks(ParsedRoadLink("ROAD", "1"), AbsentRoadLink,
                              AbsentNeighborLink, AbsentNeighborLink)>>,
      <<"-1", ParsedRoadLinks(ParsedRoadLink("ROAD", "9"), ParsedRoadLink("ROAD", "2"),
                               AbsentNeighborLink, AbsentNeighborLink)>>,
      <<"-1", ParsedRoadLinks(AbsentRoadLink, ParsedRoadLink("JUNCTION", "9"),
                               ParsedNeighborLink("1"), AbsentNeighborLink)>>,
      <<"-1", ParsedRoadLinks(ParsedRoadLink("ROAD", "1"), AbsentRoadLink,
                               ParsedNeighborLink("2"), ParsedNeighborLink("9"))>> }

ParsedRoads == {ParsedRoad(id, shape[1], shape[2]) : id \in {"1", "2"}, shape \in RoadReferenceShapes}

ParsedConnectionLists ==
    { <<ParsedConnection("1", "2")>>, <<ParsedConnection("9", "2")>>,
      <<ParsedConnection("1", "9"), ParsedConnection("2", "1")>> }

ParsedJunctions ==
    {ParsedJunction("1", connections) : connections \in ParsedConnectionLists}
        \cup {ParsedJunction("2", <<ParsedConnection("1", "2")>>)}

\* Sequences over S with lengths from lo to hi.
SeqsOf(S, lo, hi) == UNION {[1..n -> S] : n \in lo..hi}

\* No map is being link-validated.
LinkIdle ==
    /\ roads = <<>>
    /\ junctions = <<>>
    /\ errors = <<>>
    /\ result = TRUE
    /\ edits = 0
    /\ pc = "idle"

(***************************************************************************)
(* XodrMap::resolveReferences(), one loop iteration per step.              *)
(***************************************************************************)
\* The position at loop iteration i of the loops over the junctions, the
\* roads, the junction ids and the road ids: a loop that has no iteration i
\* passes control to the loop after it.
AtJunctions(i) ==
    IF i < Len(junctions_) THEN [loop |-> "junctions", i |-> i] ELSE [loop |-> "returned", i |-> 0]

AtRoads(i) == IF i < Len(roads_) THEN [loop |-> "roads", i |-> i] ELSE AtJunctions(0)

AtJunctionIds(i) == IF i < Len(junctions_) THEN [loop |-> "junctionIds", i |-> i] ELSE AtRoads(0)

AtRoadIds(i) == IF i < Len(roads_) THEN [loop |-> "roadIds", i |-> i] ELSE AtJunctionIds(0)

\* The state in which parseXml() calls resolveReferences(): the child
\* elements of a document without parse errors have been parsed.
ResolveInit ==
    /\ roads_ \in SeqsOf(ParsedRoads, 1, MaxRoads)
    /\ junctions_ \in SeqsOf(ParsedJunctions, 0, MaxJunctions)
    /\ idToIndexMaps_ = [roadIdToIndex_ |-> <<>>, junctionIdToIndex_ |-> <<>>]
    /\ parseErrors = <<>>
    /\ resolvePc = AtRoadIds(0)
    /\ LinkIdle
    /\ nextGlobalLaneIndex_ = 0
    /\ totalNumLanes_ = 0
    /\ parsePc = "resolve"
    /\ xmlRead = <<>>
    /\ CallIdle

\* The error of the catch blocks with the class of a geometry error.
invalidConnectionError_GeometryClass(what) == XodrParseError(what, GEOMETRY)

\* The error of the catch blocks with the class of a duplicated id.
invalidConnectionError_AllClass(what) == XodrParseError(what, ALL)

\* The error the catch blocks of the third and fourth loop record.
invalidConnectionError(what) == XodrParseError(what, CONNECTIVITY)

\* An iteration of the first loop: roadIdToIndex_.insert(roads_[i].id(), i),
\* and the error and the return when the id is in the map already.
InsertRoadId ==
    /\ resolvePc.loop = "roadIds"
    /\ LET i == resolvePc.i
           id == roads_[i + 1].id
       IN  IF id \in DOMAIN idToIndexMaps_.roadIdToIndex_
           THEN /\ parseErrors' = Append(parseErrors, XodrParseError("Multiple roads", ALL))
                /\ resolvePc' = [loop |-> "returned", i |-> 0]
                /\ UNCHANGED idToIndexMaps_
           ELSE /\ idToIndexMaps_' = [idToIndexMaps_ EXCEPT !.roadIdToIndex_ = (id :> i) @@ @]
                /\ resolvePc' = AtRoadIds(i + 1)
                /\ UNCHANGED parseErrors
    /\ UNCHANGED <<roads_, junctions_>>
    /\ UNCHANGED nonResolveVars

\* An iteration of the second loop, the same for the junction ids.  The
\* error message of a duplicate is built from roads_[i].id() with the index
\* i of the junction: a read past the end of roads_ when the map has no
\* road i, after which the function either goes on as for an existing road
\* or the process ends without a result.
InsertJunctionId ==
    /\ resolvePc.loop = "junctionIds"
    /\ LET i == resolvePc.i
           id == junctions_[i + 1].id
       IN  IF id \in DOMAIN idToIndexMaps_.junctionIdToIndex_
           THEN /\ \/ /\ parseErrors' = Append(parseErrors, XodrParseError("Multiple junctions", ALL))
                      /\ resolvePc' = [loop |-> "returned", i |-> 0]
                   \/ /\ i >= Len(roads_)
                      /\ parseErrors' = parseErrors
                      /\ resolvePc' = [loop |-> "crashed", i |-> 0]
                /\ UNCHANGED idToIndexMaps_
           ELSE /\ idToIndexMaps_' = [idToIndexMaps_ EXCEPT !.junctionIdToIndex_ = (id :> i) @@ @]
                /\ resolvePc' = AtJunctionIds(i + 1)
                /\ UNCHANGED parseErrors
    /\ UNCHANGED <<roads_, junctions_>>
    /\ UNCHANGED nonResolveVars

\* An iteration of the third loop: road.resolveReferences() inside try, and
\* the catch block that records the error.
ResolveRoad ==
    /\ resolvePc.loop = "roads"
    /\ LET i == resolvePc.i
           r == resolveRoadReferences(roads_[i + 1], idToIndexMaps_)
       IN  /\ roads_' = [roads_ EXCEPT ![i + 1] = r.value]
           /\ parseErrors' = IF r.threw
                             THEN Append(parseErrors, invalidConnectionError("Road has invalid connection"))
                             ELSE parseErrors
           /\ resolvePc' = AtRoads(i + 1)
    /\ UNCHANGED <<junctions_, idToIndexMaps_>>
    /\ UNCHANGED nonResolveVars

\* resolveReferences() with its last two loops run a second time.
ResolveJunction_ThenRoadsAgain ==
    /\ resolvePc.loop = "junctions"
    /\ LET i == resolvePc.i
           r == resolveJunctionReferences(junctions_[i + 1], idToIndexMaps_)
       IN  /\ junctions_' = [junctions_ EXCEPT ![i + 1] = r.value]
           /\ parseErrors' = IF r.threw
                             THEN Append(parseErrors, invalidConnectionError("Junction has invalid connection"))
                             ELSE parseErrors
           /\ resolvePc' = IF i + 1 < Len(junctions_) \/ Len(parseErrors) > 0
                           THEN AtJunctions(i + 1)
                           ELSE AtRoads(0)
    /\ UNCHANGED <<roads_, idToIndexMaps_>>
    /\ UNCHANGED nonResolveVars

\* An iteration of the fourth loop, the same for the junctions.
ResolveJunction ==
    /\ resolvePc.loop = "junctions"
    /\ LET i == resolvePc.i
           r == resolveJunctionReferences(junctions_[i + 1], idToIndexMaps_)
       IN  /\ junctions_' = [junctions_ EXCEPT ![i + 1] = r.value]
           /\ parseErrors' = IF r.threw
                             THEN Append(parseErrors, invalidConnectionError("Junction has invalid connection"))
                             ELSE parseErrors
           /\ resolvePc' = AtJunctions(i + 1)
    /\ UNCHANGED <<roads_, idToIndexMaps_>>
    /\ UNCHANGED nonResolveVars

ResolveNext ==
    \/ InsertRoadId
    \/ InsertJunctionId
    \/ ResolveRoad
    \/ ResolveJunction

ResolveSpec == ResolveInit /\ [][ResolveNext]_vars

\* resolveReferences() has returned, so parseXml() returns the result.
Returned == resolvePc.loop = "returned"

(***************************************************************************)
(* Vocabulary of the properties of reference resolution.                   *)
(***************************************************************************)
\* The references of a road that resolveReferences() resolves: the junction
\* attribute, the <predecessor> and <successor> links that are present and
\* the neighbors that are present.  Each comes with the kind of its target
\* and with its null value ("" when it has none).
RoadReferences(rs, k) ==
    LET road == rs[k + 1]
        owner == <<"road", k>>
    IN  {[owner |-> owner, field |-> "junction", ref |-> road.junctionRef, target |-> "junction", nullValue |-> "-1"]}
        \cup {[owner |-> owner, field |-> f, ref |-> road.links[f].elementRef,
               target |-> (IF road.links[f].elementType = "ROAD" THEN "road" ELSE "junction"), nullValue |-> ""] :
                  f \in {g \in {"predecessor", "successor"} : road.links[g].elementType # "NOT_SPECIFIED"}}
        \cup {[owner |-> owner, field |-> f, ref |-> road.links[f].elementRef, target |-> "road", nullValue |-> ""] :
                  f \in {g \in {"leftNeighbor", "rightNeighbor"} : road.links[g].isSpecified}}

\* The references of the connections of a junction.
JunctionReferences(js, k) ==
    {[owner |-> <<"junction", k>>, field |-> <<f, c>>, ref |-> js[k + 1].connections[c][f],
      target |-> "road", nullValue |-> ""] :
         f \in {"incomingRoad", "connectingRoad"}, c \in 1..Len(js[k + 1].connections)}

\* Every reference of a map.
References(rs, js) ==
    UNION {RoadReferences(rs, k) : k \in 0..(Len(rs) - 1)}
    \cup UNION {JunctionReferences(js, k) : k \in 0..(Len(js) - 1)}

RoadIds == {roads_[k].id : k \in 1..Len(roads_)}

JunctionIds == {junctions_[k].id : k \in 1..Len(junctions_)}

\* The reference names an id that no object of its target kind has and that
\* is not its null value.
NamesUnknownId(x) ==
    /\ x.ref.id \notin (IF x.target = "road" THEN RoadIds ELSE JunctionIds)
    /\ ~(x.nullValue # "" /\ x.ref.id = x.nullValue)

UnknownReferences == {x \in References(roads_, junctions_) : NamesUnknownId(x)}

\* Two roads or two junctions of the document share an id.
DuplicateRoadIds == \E a, b \in 1..Len(roads_) : a # b /\ roads_[a].id = roads_[b].id

DuplicateJunctionIds == \E a, b \in 1..Len(junctions_) : a # b /\ junctions_[a].id = junctions_[b].id

\* The errors of the parse result hold an error of exactly the given class.
HasErrorOfClass(invalidations) ==
    \E k \in 1..Len(parseErrors) : parseErrors[k].invalidations = invalidations

(***************************************************************************)
(* C13.  The error class of a reference to an unknown id.                  *)
(***************************************************************************)
\* C13 as stated: when a road or junction reference names an id that does
\* not exist and is not a null sentinel, parsing records an error of class
\* ALL, so hasValidGeometry() and hasValidConnectivity() are both false.
C13_UnknownIdIsAllClass ==
    (Returned /\ UnknownReferences # {}) =>
        /\ HasErrorOfClass(ALL)
        /\ ~hasValidGeometry(parseErrors)
        /\ ~hasValidConnectivity(parseErrors)

\* C13 amended: such a reference makes parsing record an error of class
\* CONNECTIVITY, so hasValidConnectivity() is false and hasValidGeometry()
\* is left as it was; only when the map also has a duplicated road or
\* junction id is the recorded error of class ALL (and nothing is resolved).
C13_UnknownIdIsConnectivityClass ==
    (Returned /\ UnknownReferences # {}) =>
        /\ ~hasValidConnectivity(parseErrors)
        /\ IF DuplicateRoadIds \/ DuplicateJunctionIds
           THEN HasErrorOfClass(ALL) /\ ~HasErrorOfClass(CONNECTIVITY)
           ELSE HasErrorOfClass(CONNECTIVITY) /\ ~HasErrorOfClass(ALL) /\ hasValidGeometry(parseErrors)

\* A map with unique ids and a reference to an unknown id has been parsed:
\* the geometry is still valid and the connectivity is not.
C13_Witness ==
    /\ Returned
    /\ UnknownReferences # {}
    /\ ~DuplicateRoadIds /\ ~DuplicateJunctionIds
    /\ hasValidGeometry(parseErrors)
    /\ ~hasValidConnectivity(parseErrors)

(***************************************************************************)
(* C14.  Unknown ids are caught and reported as connectivity errors.       *)
(***************************************************************************)
\* resolveReferences() is past the loop iteration of the road or junction
\* that owns the reference, or has returned.
Processed(x) ==
    \/ Returned
    \/ x.owner[1] = "road" /\ (resolvePc.loop = "junctions" \/ (resolvePc.loop = "roads" /\ resolvePc.i > x.owner[2]))
    \/ x.owner[1] = "junction" /\ resolvePc.loop = "junctions" /\ resolvePc.i > x.owner[2]

\* C14: when a road link, a road's junction reference or a road reference of
\* a junction connection names an unknown id, the exception of resolve() does
\* not leave resolveReferences(): once the owner of the reference has been
\* handled, and so when parsing returns, the result carries an error that
\* invalidates connectivity and hasValidConnectivity() is false.
C14_UnknownIdIsConnectivityError ==
    \A x \in UnknownReferences :
        Processed(x) =>
            /\ \E k \in 1..Len(parseErrors) : invalidatesConnectivity(parseErrors[k])
            /\ ~hasValidConnectivity(parseErrors)

\* Parsing has returned for a map with unique ids in which a road link and a
\* junction connection name unknown ids; both were reported.
C14_Witness ==
    /\ Returned
    /\ ~DuplicateRoadIds /\ ~DuplicateJunctionIds
    /\ \E x, y \in UnknownReferences :
          /\ x.owner[1] = "road" /\ x.field \in {"predecessor", "successor"}
          /\ y.owner[1] = "junction"
    /\ Len(parseErrors) >= 2
    /\ ~hasValidConnectivity(parseErrors)

(***************************************************************************)
(* C15.  Duplicated road or junction ids.                                  *)
(***************************************************************************)
\* resolveReferences() has ended, by returning or with the process.
Ended == resolvePc.loop \in {"returned", "crashed"}

\* C15: if two roads share an id, or two junctions share an id, parsing
\* yields a result that contains an ALL-class error: hasValidGeometry() and
\* hasValidConnectivity() are both false and extract_value() throws.
C15_DuplicateIdIsAllClass ==
    (Ended /\ (DuplicateRoadIds \/ DuplicateJunctionIds)) =>
        /\ Returned
        /\ HasErrorOfClass(ALL)
        /\ ~hasValidGeometry(parseErrors)
        /\ ~hasValidConnectivity(parseErrors)
        /\ extract_value_throws(parseErrors)

(***************************************************************************)
(* C16.  A reference is resolved once.                                     *)
(***************************************************************************)
\* The reference of the given owner and field in a map.
SameReference(x, rs, js) ==
    CHOOSE y \in References(rs, js) : y.owner = x.owner /\ y.field = x.field

\* C16: on every parse path a reference moves from unresolved to resolved
\* (index >= 0) or null at most once: resolve() is called at most once on a
\* reference, it is never called on a reference that is resolved or null,
\* and the index of such a reference never changes again.
C16_ResolvedAtMostOnce ==
    /\ [](\A x \in References(roads_, junctions_) : x.ref.resolveCalls <= 1)
    /\ [][\A x \in References(roads_, junctions_) :
             x.ref.index # INVALID_VALUE =>
                 /\ SameReference(x, roads_', junctions_').ref.index = x.ref.index
                 /\ SameReference(x, roads_', junctions_').ref.resolveCalls = x.ref.resolveCalls]_vars

\* Parsing has returned with every kind of reference resolved or null: a
\* null junction reference, a resolved junction reference, resolved road
\* links and neighbors and resolved connection roads, each by one call.
C16_Witness ==
    /\ Returned
    /\ \A x \in References(roads_, junctions_) : x.ref.index # INVALID_VALUE /\ x.ref.resolveCalls = 1
    /\ \E x \in References(roads_, junctions_) : x.ref.index = NULL_VALUE
    /\ \E x \in References(roads_, junctions_) : x.field = "junction" /\ x.ref.index >= 0
    /\ \E x \in References(roads_, junctions_) : x.field = "leftNeighbor" /\ x.ref.index >= 0
    /\ \E x \in References(roads_, junctions_) : x.owner[1] = "junction" /\ x.ref.index >= 0

(***************************************************************************)
(* Parsing of the <road> and <junction> elements.                          *)
(*                                                                         *)
(* An element is a record of the attribute texts and child elements the    *)
(* parsers look at.  A double is a record with the flag nan and the value  *)
(* v, which is an integer in the documents of the model.                   *)
(***************************************************************************)
Double(v) == [nan |-> FALSE, v |-> v]

NaN == [nan |-> TRUE, v |-> 0]

\* The comparisons of doubles: every ordered comparison with a NaN is false
\* and != with a NaN is true.
dGeq(a, b) == ~a.nan /\ ~b.nan /\ a.v >= b.v

dLeq(a, b) == ~a.nan /\ ~b.nan /\ a.v <= b.v

dLess(a, b) == ~a.nan /\ ~b.nan /\ a.v < b.v

dNeq(a, b) == a.nan \/ b.nan \/ a.v # b.v

\* The decimal texts of the documents and their values.
DecimalValue == ("0" :> 0) @@ ("1" :> 1) @@ ("2" :> 2) @@ ("3" :> 3) @@ ("4" :> 4)

\* parseXmlAttrib<double>, that is std::stod: "nan" is read as a NaN and a
\* text that is not a number, the empty text included, throws.
stod(value) ==
    IF value = "nan" THEN [value |-> NaN, threw |-> FALSE]
    ELSE IF value \in DOMAIN DecimalValue THEN [value |-> Double(DecimalValue[value]), threw |-> FALSE]
    ELSE [value |-> Double(0), threw |-> TRUE]

\* The ids of the lanes of a side with n lanes as the file lists them:
\* n, ..., 1 on the left and -1, ..., -n on the right.
LeftLaneIds(n) == [k \in 1..n |-> n + 1 - k]

RightLaneIds(n) == [k \in 1..n |-> 0 - k]

\* The lanes of a side that all take one index of the counter.
parseLanes_OneIndexPerSide(ids, next) == [k \in 1..Len(ids) |-> [id |-> ids[k], globalIndex_ |-> next]]

\* LaneSection::Lane::parseXml for the lanes with the given ids: each lane
\* takes xml.newGlobalLaneIndex(), the first of them the index next.
parseLanes(ids, next) == [k \in 1..Len(ids) |-> [id |-> ids[k], globalIndex_ |-> next + k - 1]]

\* The data of an error of XmlAttributeParsers::parse or
\* XmlChildElementParsers::parse: the category and the name of the
\* attribute or child element, written as one text.
XmlParseErrorData(category, name) == category \o " " \o name

XmlParseError(category, name, invalidations) == XodrParseError(XmlParseErrorData(category, name), invalidations)

\* LaneSection::parseXml on a <laneSection> element with the attribute text
\* s ("-" when the attribute is absent), elem.left lanes in <left>, a
\* <center> and elem.right lanes in <right>.  startS_ keeps the zero of the
\* value-initialised LaneSection when s is absent or not a number.
parseLaneSectionXml(elem, next) ==
    LET s == stod(elem.s)
        lanes == parseLanes(LeftLaneIds(elem.left), next)
                 \o parseLanes(RightLaneIds(elem.right), next + elem.left)
    IN  [value |-> [startS_ |-> s.value, endS_ |-> Double(0), numLeftLanes_ |-> elem.left, lanes_ |-> lanes],
         errors |-> IF elem.s = "-" THEN <<XmlParseError("MISSING_ATTRIBUTE", "s", GEOMETRY)>>
                    ELSE IF s.threw THEN <<XmlParseError("INVALID_ATTRIBUTE_VALUE", "s", GEOMETRY)>>
                    ELSE <<>>,
         next |-> next + elem.left + elem.right]

\* The handler without the assignment to the end of the section before.
laneSectionHandler_KeepsEndS(road, laneSection) ==
    LET sections == road.value.laneSections_
        n == Len(sections)
        startS == laneSection.value.startS_
    IN  [value |-> [road.value EXCEPT !.laneSections_ = Append(sections, laneSection.value)],
         errors |-> IF (n = 0 /\ dNeq(startS, Double(0))) \/ (n > 0 /\ dGeq(sections[n].startS_, startS))
                    THEN Append(road.errors, XodrParseError("laneSection start", GEOMETRY))
                    ELSE road.errors]

\* The handler of Road::LaneChildElemParsers for a <laneSection>: the
\* checks of the start of the section against the sections before it, the
\* end of the section before it, and the push_back.  The errors of the
\* LaneSection::parseXml result are not appended to the road.
laneSectionHandler(road, laneSection) ==
    LET sections == road.value.laneSections_
        n == Len(sections)
        startS == laneSection.value.startS_
    IN  IF n = 0
        THEN [value |-> [road.value EXCEPT !.laneSections_ = <<laneSection.value>>],
              errors |-> IF dNeq(startS, Double(0))
                         THEN Append(road.errors, XodrParseError("first laneSection does not start at 0", GEOMETRY))
                         ELSE road.errors]
        ELSE [value |-> [road.value EXCEPT !.laneSections_ =
                            Append([sections EXCEPT ![n].endS_ = startS], laneSection.value)],
              errors |-> IF dGeq(sections[n].startS_, startS)
                         THEN Append(road.errors, XodrParseError("laneSections not ascending", GEOMETRY))
                         ELSE road.errors]

\* XmlChildElementParsers::parse over the <laneSection> children of <lanes>
\* from element k on, with the lane index counter.
RECURSIVE parseLaneSections(_, _, _, _)
parseLaneSections(road, elems, k, next) ==
    IF k > Len(elems) THEN [road |-> road, next |-> next]
    ELSE LET laneSection == parseLaneSectionXml(elems[k], next)
         IN  parseLaneSections(laneSectionHandler(road, laneSection), elems, k + 1, laneSection.next)

\* ReferenceLine::parseXml on a <planView> with one <geometry> that starts
\* at s = 0 and has the attribute text length: endS and the errors.
parseReferenceLineXml(length) ==
    LET len == stod(length)
    IN  [value |-> [endS |-> len.value],
         errors |-> IF len.threw THEN <<XmlParseError("INVALID_ATTRIBUTE_VALUE", "length", GEOMETRY)>>
                    ELSE IF dLeq(len.value, Double(0))
                         THEN <<XodrParseError("Reference line must have strictly positive length", GEOMETRY)>>
                         ELSE <<>>]

\* RoadLink::parseXml that returns a link without its contact point.
parseRoadLinkXml_ReturnsIncompleteLink(elem) ==
    [value |-> ParsedRoadLink(IF elem.elementType = "road" THEN "ROAD" ELSE "JUNCTION", elem.elementId),
     threw |-> FALSE]

\* RoadLink::parseXml on a <predecessor> with the given attribute texts
\* (contactPoint "-" when absent): a link to a road needs a contact point,
\* and the exception for a missing one is thrown after the element is read.
parseRoadLinkXml(elem) ==
    [value |-> ParsedRoadLink(IF elem.elementType = "road" THEN "ROAD" ELSE "JUNCTION", elem.elementId),
     threw |-> elem.elementType = "road" /\ elem.contactPoint = "-"]

\* The error of Road::parseXml about the last section.
invalidEndSError == XodrParseError("laneSection has invalid endS", GEOMETRY)

\* Road::parseXml reads laneSections_.back() of a road without lane
\* sections: <lanes> had no <laneSection>, which is an error of no class.
backOfNoLaneSection(road) == hasValidGeometry(road.errors) /\ road.value.laneSections_ = <<>>

\* The end of Road::parseXml: nothing more when the geometry is invalid,
\* else the check of the last section against the end of the reference line
\* and the end of the last section.  The road is left as it is where
\* backOfNoLaneSection holds; the callers give the outcomes of that read.
finishRoad(road) ==
    LET sections == road.value.laneSections_
        n == Len(sections)
        endS == road.value.referenceLine_.endS
    IN  IF ~hasValidGeometry(road.errors) \/ n = 0 THEN road
        ELSE [value |-> [road.value EXCEPT !.laneSections_[n].endS_ = endS],
              errors |-> IF dGeq(sections[n].startS_, endS)
                         THEN Append(road.errors, invalidEndSError)
                         ELSE road.errors]

\* Road::parseXml on a <road> element with the attribute id, junction="-1",
\* an optional <link> with a <predecessor> (elem.link is <<>> or holds the
\* predecessor), a <planView> and an optional <lanes> (elem.hasLanes) with
\* <laneSection> children.  The value is the road, its errors, the lane
\* index counter, and whether an exception left the function.
parseRoadXml(elem, next) ==
    LET lnk == IF elem.link = <<>> THEN [value |-> AbsentRoadLink, threw |-> FALSE]
               ELSE parseRoadLinkXml(elem.link[1])
        refLine == parseReferenceLineXml(elem.length)
        start == [value |-> [id |-> elem.id,
                             junctionRef |-> parseXodrObjectReference("-1"),
                             links |-> ParsedRoadLinks(lnk.value, AbsentRoadLink, AbsentNeighborLink, AbsentNeighborLink),
                             referenceLine_ |-> refLine.value,
                             laneSections_ |-> <<>>],
                  errors |-> refLine.errors]
        parsed == parseLaneSections(start, elem.laneSections, 1, next)
        lanes == IF ~elem.hasLanes
                 THEN [road |-> [start EXCEPT !.errors = Append(@, XmlParseError("MISSING_CHILD_ELEMENT", "lanes", GEOMETRY))],
                       next |-> next]
                 ELSE IF elem.laneSections = <<>>
                 THEN [road |-> [start EXCEPT !.errors = Append(@, XmlParseError("MISSING_CHILD_ELEMENT", "laneSection", 0))],
                       next |-> next]
                 ELSE parsed
        done == finishRoad(lanes.road)
    IN  [value |-> done.value, errors |-> done.errors, next |-> lanes.next, threw |-> lnk.threw,
         undefined |-> ~lnk.threw /\ backOfNoLaneSection(lanes.road)]

\* Junction::parseXml on a <junction> element with the attribute id and
\* <connection> children; at least one connection is required.
parseJunctionXml(elem) ==
    [value |-> ParsedJunction(elem.id, elem.connections),
     errors |-> IF elem.connections = <<>>
                THEN <<XmlParseError("MISSING_CHILD_ELEMENT", "connection", 0)>>
                ELSE <<>>]

(***************************************************************************)
(* XodrMap::parseXml(): the <road> and <junction> children of <OpenDRIVE>, *)
(* one element per step, then resolveReferences() and totalNumLanes_.      *)
(***************************************************************************)
LaneSectionElement(s, left, right) == [s |-> s, left |-> left, right |-> right]

RoadLinkElement(elementType, elementId, contactPoint) ==
    [elementType |-> elementType, elementId |-> elementId, contactPoint |-> contactPoint]

RoadElement(id, linkChild, length, hasLanes, laneSections) ==
    [id |-> id, link |-> linkChild, length |-> length, hasLanes |-> hasLanes, laneSections |-> laneSections]

JunctionElement(id, connections) == [id |-> id, connections |-> connections]

\* The <road> elements of the documents: roads with one, two and three lane
\* sections, a section that holds only the center lane at the start and in
\* the middle of a road, a predecessor road link without and with a contact
\* point, a junction link, a lane section without the attribute s, lane
\* sections out of order, a road without <lanes> and a <lanes> without
\* <laneSection>.
RoadElements ==
    { RoadElement("1", <<>>, "2", TRUE, <<LaneSectionElement("0", 1, 1)>>),
      RoadElement("2", <<>>, "3", TRUE, <<LaneSectionElement("0", 0, 2), LaneSectionElement("1", 1, 0)>>),
      RoadElement("2", <<RoadLinkElement("road", "1", "-")>>, "2", TRUE, <<LaneSectionElement("0", 1, 0)>>),
      RoadElement("2", <<RoadLinkElement("road", "1", "start")>>, "2", TRUE, <<LaneSectionElement("0", 0, 0)>>),
      RoadElement("1", <<RoadLinkElement("junction", "1", "-")>>, "2", TRUE, <<LaneSectionElement("-", 1, 0)>>),
      RoadElement("2", <<>>, "3", TRUE,
                  <<LaneSectionElement("0", 1, 0), LaneSectionElement("2", 1, 0), LaneSectionElement("1", 0, 1)>>),
      RoadElement("1", <<>>, "2", FALSE, <<>>),
      RoadElement("1", <<>>, "2", TRUE, <<>>),
      RoadElement("1", <<>>, "4", TRUE,
                  <<LaneSectionElement("0", 1, 0), LaneSectionElement("1", 0, 0), LaneSectionElement("3", 0, 1)>>) }

\* The <junction> elements of the documents.
JunctionElements ==
    { JunctionElement("1", <<ParsedConnection("1", "2")>>),
      JunctionElement("1", <<>>),
      JunctionElement("2", <<ParsedConnection("9", "1")>>) }

\* The reader is at the first child element after <header>.
ParseInit ==
    /\ roads_ = <<>>
    /\ junctions_ = <<>>
    /\ idToIndexMaps_ = [roadIdToIndex_ |-> <<>>, junctionIdToIndex_ |-> <<>>]
    /\ parseErrors = <<>>
    /\ resolvePc = [loop |-> "idle", i |-> 0]
    /\ LinkIdle
    /\ nextGlobalLaneIndex_ = 0
    /\ totalNumLanes_ = 0
    /\ parsePc = "children"
    /\ xmlRead = <<>>
    /\ CallIdle

\* The vector element parser of "road": Road::parseXml, push_back of the
\* value and appendErrors.  An exception of Road::parseXml leaves
\* XodrMap::parseXml, which has no handler.  The read of the last of no
\* lane sections ends the process or goes on, with or without the error of
\* the comparison it feeds.
ParseRoadElement ==
    /\ parsePc = "children"
    /\ Len(roads_) < MaxRoads
    /\ \E elem \in RoadElements :
          LET r == parseRoadXml(elem, nextGlobalLaneIndex_)
          IN  /\ xmlRead' = Append(xmlRead, [name |-> "road", elem |-> elem])
              /\ \/ /\ r.threw
                    /\ parsePc' = "threw"
                    /\ UNCHANGED <<roads_, parseErrors, nextGlobalLaneIndex_>>
                 \/ /\ r.undefined
                    /\ parsePc' = "crashed"
                    /\ UNCHANGED <<roads_, parseErrors, nextGlobalLaneIndex_>>
                 \/ /\ ~r.threw
                    /\ roads_' = Append(roads_, r.value)
                    /\ \/ parseErrors' = parseErrors \o r.errors
                       \/ /\ r.undefined
                          /\ parseErrors' = parseErrors \o Append(r.errors, invalidEndSError)
                    /\ nextGlobalLaneIndex_' = r.next
                    /\ UNCHANGED parsePc
    /\ UNCHANGED <<junctions_, idToIndexMaps_, resolvePc, totalNumLanes_>>
    /\ UNCHANGED nonParseVars

\* The vector element parser of "junction".
ParseJunctionElement ==
    /\ parsePc = "children"
    /\ Len(junctions_) < MaxJunctions
    /\ \E elem \in JunctionElements :
          LET j == parseJunctionXml(elem)
          IN  /\ junctions_' = Append(junctions_, j.value)
              /\ parseErrors' = parseErrors \o j.errors
              /\ xmlRead' = Append(xmlRead, [name |-> "junction", elem |-> elem])
    /\ UNCHANGED <<roads_, idToIndexMaps_, resolvePc, nextGlobalLaneIndex_, totalNumLanes_, parsePc>>
    /\ UNCHANGED nonParseVars

\* The end tag of <OpenDRIVE>: the error for a document without a road, and
\* the call of resolveReferences().
EndOfChildElements ==
    /\ parsePc = "children"
    /\ parseErrors' = IF roads_ = <<>>
                      THEN Append(parseErrors, XmlParseError("MISSING_CHILD_ELEMENT", "road", ALL))
                      ELSE parseErrors
    /\ resolvePc' = AtRoadIds(0)
    /\ parsePc' = "resolve"
    /\ UNCHANGED <<roads_, junctions_, idToIndexMaps_, nextGlobalLaneIndex_, totalNumLanes_, xmlRead>>
    /\ UNCHANGED nonParseVars

\* totalNumLanes_ = xml.peekNextGlobalLaneIndex() and the return of the
\* result, after resolveReferences() has returned.
SetTotalNumLanes ==
    /\ parsePc = "resolve"
    /\ Returned
    /\ totalNumLanes_' = nextGlobalLaneIndex_
    /\ parsePc' = "parsed"
    /\ UNCHANGED <<roads_, junctions_, idToIndexMaps_, parseErrors, resolvePc, nextGlobalLaneIndex_, xmlRead>>
    /\ UNCHANGED nonParseVars

ParseNext ==
    \/ ParseRoadElement
    \/ ParseJunctionElement
    \/ EndOfChildElements
    \/ InsertRoadId
    \/ InsertJunctionId
    \/ ResolveRoad
    \/ ResolveJunction
    \/ SetTotalNumLanes

ParseSpec == ParseInit /\ [][ParseNext]_vars

\* parseXml() has returned its result.
Parsed == parsePc = "parsed"

(***************************************************************************)
(* The global lane indices of a parsed map.                                *)
(***************************************************************************)
\* The globalIndex() of the lanes of the lane sections from section k on,
\* in the order of the file.
RECURSIVE sectionLaneIndices(_, _)
sectionLaneIndices(sections, k) ==
    IF k > Len(sections) THEN <<>>
    ELSE [n \in 1..Len(sections[k].lanes_) |-> sections[k].lanes_[n].globalIndex_]
         \o sectionLaneIndices(sections, k + 1)

\* The same for the lanes of the roads from road k on.
RECURSIVE roadLaneIndices(_, _)
roadLaneIndices(rs, k) ==
    IF k > Len(rs) THEN <<>>
    ELSE sectionLaneIndices(rs[k].laneSections_, 1) \o roadLaneIndices(rs, k + 1)

\* XodrMap::totalNumLanes()
totalNumLanes == totalNumLanes_

\* The integers a read of a lane that does not exist is taken to give.
UndefinedInts == (0 - 1) .. (totalNumLanes_ + 1)

\* Road::globalLaneIndicesBegin(): the values the call can return.  It reads
\* laneSections_.front().lanes().front(), which does not exist for a road
\* without lane sections or with a first section without lanes.
globalLaneIndicesBegin(road) ==
    IF road.laneSections_ # <<>> /\ road.laneSections_[1].lanes_ # <<>>
    THEN {road.laneSections_[1].lanes_[1].globalIndex_}
    ELSE UndefinedInts

\* Road::globalLaneIndicesEnd(): the values the call can return.  It reads
\* laneSections_.back().lanes().back().
globalLaneIndicesEnd(road) ==
    LET sections == road.laneSections_
        lanes == sections[Len(sections)].lanes_
    IN  IF sections # <<>> /\ lanes # <<>>
        THEN {lanes[Len(lanes)].globalIndex_ + 1}
        ELSE UndefinedInts

\* The elements of a sequence.
Range(seq) == {seq[k] : k \in DOMAIN seq}

\* The global indices of the lanes of the map in file order are 0, 1, ...,
\* totalNumLanes - 1.
GlobalIndicesDense ==
    LET indices == roadLaneIndices(roads_, 1)
    IN  /\ Len(indices) = totalNumLanes
        /\ \A k \in DOMAIN indices : indices[k] = k - 1

\* The lanes of the road occupy [globalLaneIndicesBegin, globalLaneIndicesEnd),
\* whatever the two calls return.
OccupiesItsRange(road) ==
    \A b \in globalLaneIndicesBegin(road), e \in globalLaneIndicesEnd(road) :
        Range(sectionLaneIndices(road.laneSections_, 1)) = b .. (e - 1)

\* The first and the last lane section of the road hold a lane.
HasFirstAndLastLane(road) ==
    /\ road.laneSections_ # <<>>
    /\ road.laneSections_[1].lanes_ # <<>>
    /\ road.laneSections_[Len(road.laneSections_)].lanes_ # <<>>

MaxLaneSections == 3

\* The texts of the attribute s of a <laneSection> ("-": no attribute) and
\* of the attribute length of the <geometry>.
STexts == {"0", "1", "2", "nan", "-"}

LengthTexts == {"0", "2", "3", "nan"}

\* The <road> elements Road::parseXml is called on: each lane section has
\* one lane on either side.
RoadXmlInputs ==
    { RoadElement("1", <<>>, length, TRUE, [k \in DOMAIN sTexts |-> LaneSectionElement(sTexts[k], 1, 1)]) :
        length \in LengthTexts, sTexts \in SeqsOf(STexts, 1, MaxLaneSections) }

RoadInit ==
    /\ call \in {[function |-> "Road::parseXml", xml |-> elem] : elem \in RoadXmlInputs}
    /\ returnValue = <<>>
    /\ LinkIdle
    /\ ResolveIdle
    /\ ParseIdle

\* The call of Road::parseXml on the element, with a fresh XodrReader.
CallRoadParseXml ==
    /\ call.function = "Road::parseXml"
    /\ returnValue = <<>>
    /\ returnValue' = <<parseRoadXml(call.xml, 0)>>
    /\ UNCHANGED call
    /\ UNCHANGED nonCallVars

RoadNext == CallRoadParseXml

RoadSpec == RoadInit /\ [][RoadNext]_vars

\* Road::parseXml has returned a road without an error of class GEOMETRY.
RoadParsedWithValidGeometry ==
    /\ call.function = "Road::parseXml"
    /\ returnValue # <<>>
    /\ hasValidGeometry(returnValue[1].errors)

\* The lane sections tile [0, endS]: the first starts at 0, each ends where
\* the next starts, the last ends at endS and each starts before it ends.
TilesReferenceLine(sections, endS) ==
    /\ sections # <<>>
    /\ ~dNeq(sections[1].startS_, Double(0))
    /\ \A k \in 1..(Len(sections) - 1) : ~dNeq(sections[k].endS_, sections[k + 1].startS_)
    /\ ~dNeq(sections[Len(sections)].endS_, endS)
    /\ \A k \in DOMAIN sections : dLess(sections[k].startS_, sections[k].endS_)

\* No start of a lane section and no end of the reference line is a NaN.
NoNaN(sections, endS) ==
    /\ ~endS.nan
    /\ \A k \in DOMAIN sections : ~sections[k].startS_.nan

MaxLanesPerSide == 3

\* A lane section with the given numbers of left and right lanes.
SectionWithLanes(numLeft, numRight) ==
    LaneSection(numLeft, [k \in 1..(numLeft + numRight) |-> Lane(NULL_TAG, NULL_TAG)])

LaneCallSections ==
    {SectionWithLanes(numLeft, numRight) : numLeft \in 0..MaxLanesPerSide, numRight \in 0..MaxLanesPerSide}

\* The indices laneIndexToId() accepts (its assert).
ValidLaneIndices(section) == 0..(Len(section.lanes) - 1)

\* The ids laneIdToIndex() accepts (its asserts).
ValidLaneIds(section) == {id \in (0 - numRightLanes(section))..numLeftLanes(section) : id # 0}

LaneInit ==
    /\ call \in {[function |-> "laneIndexToId", section |-> section, arg |-> idx] :
                    section \in LaneCallSections, idx \in 0..(2 * MaxLanesPerSide - 1)}
                \cup {[function |-> "laneIdToIndex", section |-> section, arg |-> id] :
                    section \in LaneCallSections, id \in (0 - MaxLanesPerSide)..MaxLanesPerSide}
    /\ call.function = "laneIndexToId" => call.arg \in ValidLaneIndices(call.section)
    /\ call.function = "laneIdToIndex" => call.arg \in ValidLaneIds(call.section)
    /\ returnValue = <<>>
    /\ LinkIdle
    /\ ResolveIdle
    /\ ParseIdle

CallLaneIndexToId ==
    /\ call.function = "laneIndexToId"
    /\ returnValue = <<>>
    /\ returnValue' = <<laneIndexToId(call.section, call.arg)>>
    /\ UNCHANGED call
    /\ UNCHANGED nonCallVars

CallLaneIdToIndex ==
    /\ call.function = "laneIdToIndex"
    /\ returnValue = <<>>
    /\ returnValue' = <<laneIdToIndex(call.section, call.arg)>>
    /\ UNCHANGED call
    /\ UNCHANGED nonCallVars

LaneNext ==
    \/ CallLaneIndexToId
    \/ CallLaneIdToIndex

LaneSpec == LaneInit /\ [][LaneNext]_vars

\* C19: for a lane section with any numbers of left and right lanes, the id
\* laneIndexToId returns for an index of a lane is an id laneIdToIndex
\* accepts and maps back to that index, and the index laneIdToIndex returns
\* for an id in [-numRightLanes, numLeftLanes] other than 0 is an index
\* laneIndexToId accepts and maps back to that id.
C19_MutualInverses ==
    /\ call.function = "laneIndexToId" /\ returnValue # <<>>
        => /\ returnValue[1] \in ValidLaneIds(call.section)
           /\ laneIdToIndex(call.section, returnValue[1]) = call.arg
    /\ call.function = "laneIdToIndex" /\ returnValue # <<>>
        => /\ returnValue[1] \in ValidLaneIndices(call.section)
           /\ laneIndexToId(call.section, returnValue[1]) = call.arg

\* laneIdToIndex has returned the index of a right lane of a section that
\* has left lanes too.
C19_Witness ==
    /\ call.function = "laneIdToIndex"
    /\ returnValue # <<>>
    /\ call.arg < 0
    /\ numLeftLanes(call.section) > 1
    /\ returnValue[1] = Len(call.section.lanes) - 1

(***************************************************************************)
(* The defects of the elements read and the errors of the parse result.    *)
(***************************************************************************)
\* XodrMap::parseXml() was left by an exception.
Threw == parsePc = "threw"

\* The element read is a <road> whose <predecessor> is a link to a road
\* without the attribute contactPoint.
HasIncompleteRoadLink(x) ==
    /\ x.name = "road"
    /\ x.elem.link # <<>>
    /\ x.elem.link[1].elementType = "road"
    /\ x.elem.link[1].contactPoint = "-"

\* The element read is a <road> with a <laneSection> without the attribute s.
HasLaneSectionWithoutS(x) ==
    /\ x.name = "road"
    /\ \E k \in DOMAIN x.elem.laneSections : x.elem.laneSections[k].s = "-"

\* The errors of the result hold an XmlParseError of the category for the
\* attribute or child element of the name.
ReportedXml(category, name) ==
    \E k \in DOMAIN parseErrors : parseErrors[k].data = XmlParseErrorData(category, name)

\* The missing children of the <road> and <junction> elements read, and of
\* <OpenDRIVE>, are entries of the errors.
MissingChildrenReported ==
    /\ \A k \in DOMAIN xmlRead :
        LET x == xmlRead[k]
        IN  /\ x.name = "road" /\ ~x.elem.hasLanes => ReportedXml("MISSING_CHILD_ELEMENT", "lanes")
            /\ x.name = "road" /\ x.elem.hasLanes /\ x.elem.laneSections = <<>>
                => ReportedXml("MISSING_CHILD_ELEMENT", "laneSection")
            /\ x.name = "junction" /\ x.elem.connections = <<>> => ReportedXml("MISSING_CHILD_ELEMENT", "connection")
    /\ (\A k \in DOMAIN xmlRead : xmlRead[k].name # "road") => ReportedXml("MISSING_CHILD_ELEMENT", "road")

\* The missing attributes s of the <laneSection> elements read are entries
\* of the errors.
MissingLaneSectionAttributesReported ==
    \A k \in DOMAIN xmlRead : HasLaneSectionWithoutS(xmlRead[k]) => ReportedXml("MISSING_ATTRIBUTE", "s")

MaxErrors == 2

\* ErrorData holding an XmlParseError of the category.
XmlErrorData(category) == [which |-> "XmlParseError", category |-> category, message |-> ""]

\* ErrorData holding a std::string.
StringErrorData(message) == [which |-> "std::string", category |-> "", message |-> message]

\* XmlParseError::Category
Categories ==
    {"MISSING_ATTRIBUTE", "UNEXPECTED_ATTRIBUTE", "MISSING_CHILD_ELEMENT",
     "UNEXPECTED_CHILD_ELEMENT", "DUPLICATE_CHILD_ELEMENT", "INVALID_ATTRIBUTE_VALUE"}

\* The messages of the handlers of the child elements that are not
\* implemented: Road::ObjectsChildElemParsers and the child element parsers
\* of RoadObject.
NotImplementedMessages ==
    {"WARNING: <objectReference> element not implemented yet.",
     "WARNING: <tunnel> element not implemented yet.",
     "WARNING: <bridge> element not implemented yet.",
     "WARNING: <repeat> element not implemented yet.",
     "WARNING: <validity> element not implemented yet.",
     "WARNING: <parkingSpace> element not implemented yet."}

\* The errors the handlers record with emplace_back(message): an
\* XodrParseError of no invalidation class.
NotImplementedErrors == {XodrParseError(StringErrorData(m), 0) : m \in NotImplementedMessages}

\* The errors of XmlAttributeParsers::parse and XmlChildElementParsers::parse
\* for entries without an invalidation class, and a message of class ALL.
RecordedErrors ==
    {XodrParseError(XmlErrorData(c), 0) : c \in Categories}
        \cup NotImplementedErrors
        \cup {XodrParseError(StringErrorData("Multiple roads"), ALL)}

\* XmlParseError::isFatal()
xmlIsFatal(data) == data.category # "UNEXPECTED_ATTRIBUTE" /\ data.category # "UNEXPECTED_CHILD_ELEMENT"

\* XodrParseError::isFatal(): the visitor of the two alternatives.
isFatal(error) == IF error.data.which = "XmlParseError" THEN xmlIsFatal(error.data) ELSE TRUE

\* XmlParseResult::hasFatalErrors()
hasFatalErrors(errs) == \E k \in DOMAIN errs : isFatal(errs[k])

FatalInit ==
    /\ call \in {[function |-> "hasFatalErrors", errors |-> errs] : errs \in SeqsOf(RecordedErrors, 0, MaxErrors)}
    /\ returnValue = <<>>
    /\ LinkIdle
    /\ ResolveIdle
    /\ ParseIdle

CallHasFatalErrors ==
    /\ call.function = "hasFatalErrors"
    /\ returnValue = <<>>
    /\ returnValue' = <<hasFatalErrors(call.errors)>>
    /\ UNCHANGED call
    /\ UNCHANGED nonCallVars

FatalNext == CallHasFatalErrors

FatalSpec == FatalInit /\ [][FatalNext]_vars

\* The error is one the specification calls a warning: an unexpected
\* attribute, an unexpected child element, or the message of a child
\* element that is not implemented.
IsWarning(error) ==
    \/ error.data.which = "XmlParseError"
        /\ error.data.category \in {"UNEXPECTED_ATTRIBUTE", "UNEXPECTED_CHILD_ELEMENT"}
    \/ error \in NotImplementedErrors

\* C21: a parse result whose only recorded errors are warnings has
\* hasFatalErrors() = false.
C21_WarningsAreNotFatal ==
    /\ call.function = "hasFatalErrors"
    /\ returnValue # <<>>
    /\ \A k \in DOMAIN call.errors : IsWarning(call.errors[k])
    => returnValue[1] = FALSE

(***************************************************************************)
(* XmlReader.  A document is its root element, an element is its name and  *)
(* the sequence of its child elements.  curElement_ is the path of child   *)
(* indices from the TiXmlDocument to the element: <<1>> is the root        *)
(* element, <<1, k>> its k-th child element, <<>> the TiXmlDocument itself *)
(* (the Parent() of the root element), and <<0>> is nullptr.               *)
(***************************************************************************)
Element(name, children) == [name |-> name, children |-> children]

nullptr == <<0>>

XmlReader(doc, curElement, endOfElement) ==
    [doc_ |-> doc, curElement_ |-> curElement, endOfElement_ |-> endOfElement]

\* The path without its last index.
Front(path) == SubSeq(path, 1, Len(path) - 1)

\* The element of the document at the path of an element.
RECURSIVE elementAt(_, _)
elementAt(doc, path) ==
    IF Len(path) = 1 THEN doc ELSE elementAt(doc, Front(path)).children[path[Len(path)]]

\* TiXmlNode::FirstChildElement() of the element at the path, or nullptr.
FirstChildElement(doc, path) ==
    IF elementAt(doc, path).children # <<>> THEN Append(path, 1) ELSE nullptr

\* TiXmlNode::NextSiblingElement() of the node at the path, or nullptr: the
\* root element and the TiXmlDocument have no sibling.
NextSiblingElement(doc, path) ==
    IF Len(path) > 1 /\ path[Len(path)] < Len(elementAt(doc, Front(path)).children)
    THEN Append(Front(path), path[Len(path)] + 1)
    ELSE nullptr

\* TiXmlNode::Parent(), which is nullptr for the TiXmlDocument.
Parent(path) == IF path = <<>> THEN nullptr ELSE Front(path)

\* TiXmlElement::Value() of the element at the path.
Value(doc, path) == elementAt(doc, path).name

\* A call that returns a bool and leaves the reader in some state.
Returns(value, reader) == [result |-> value, reader |-> reader]

\* tryReadStartElement() that moves to the parent when there is no next
\* start tag.
tryReadStartElement_PopsOnFailure(xml) ==
    LET down == FirstChildElement(xml.doc_, xml.curElement_)
        next == NextSiblingElement(xml.doc_, xml.curElement_)
    IN  IF xml.curElement_ = nullptr
        THEN Returns(TRUE, [xml EXCEPT !.curElement_ = <<1>>, !.endOfElement_ = FALSE])
        ELSE IF ~xml.endOfElement_
        THEN IF down # nullptr THEN Returns(TRUE, [xml EXCEPT !.curElement_ = down])
             ELSE Returns(FALSE, [xml EXCEPT !.endOfElement_ = TRUE])
        ELSE IF next # nullptr
             THEN Returns(TRUE, [xml EXCEPT !.curElement_ = next, !.endOfElement_ = FALSE])
             ELSE Returns(FALSE, [xml EXCEPT !.curElement_ = Parent(xml.curElement_)])

\* XmlReader::tryReadStartElement()
tryReadStartElement(xml) ==
    LET down == FirstChildElement(xml.doc_, xml.curElement_)
        next == NextSiblingElement(xml.doc_, xml.curElement_)
    IN  IF xml.curElement_ = nullptr
        THEN Returns(TRUE, [xml EXCEPT !.curElement_ = <<1>>, !.endOfElement_ = FALSE])
        ELSE IF ~xml.endOfElement_
        THEN IF down # nullptr THEN Returns(TRUE, [xml EXCEPT !.curElement_ = down])
             ELSE Returns(FALSE, xml)
        ELSE IF next # nullptr
             THEN Returns(TRUE, [xml EXCEPT !.curElement_ = next, !.endOfElement_ = FALSE])
             ELSE Returns(FALSE, xml)

\* XmlReader::tryReadStartElement(expectedName)
tryReadStartElementNamed(xml, expectedName) ==
    LET down == FirstChildElement(xml.doc_, xml.curElement_)
        next == NextSiblingElement(xml.doc_, xml.curElement_)
    IN  IF xml.curElement_ = nullptr
        THEN IF Value(xml.doc_, <<1>>) = expectedName
             THEN Returns(TRUE, [xml EXCEPT !.curElement_ = <<1>>, !.endOfElement_ = FALSE])
             ELSE Returns(FALSE, xml)
        ELSE IF ~xml.endOfElement_
        THEN IF down # nullptr /\ Value(xml.doc_, down) = expectedName
             THEN Returns(TRUE, [xml EXCEPT !.curElement_ = down])
             ELSE Returns(FALSE, xml)
        ELSE IF next # nullptr /\ Value(xml.doc_, next) = expectedName
             THEN Returns(TRUE, [xml EXCEPT !.curElement_ = next, !.endOfElement_ = FALSE])
             ELSE Returns(FALSE, xml)

\* XmlReader::tryReadEndElement(), for a reader with a current node.
tryReadEndElement(xml) ==
    IF xml.endOfElement_
    THEN IF NextSiblingElement(xml.doc_, xml.curElement_) # nullptr
         THEN Returns(FALSE, xml)
         ELSE Returns(TRUE, [xml EXCEPT !.curElement_ = Parent(xml.curElement_)])
    ELSE IF FirstChildElement(xml.doc_, xml.curElement_) # nullptr
         THEN Returns(FALSE, xml)
         ELSE Returns(TRUE, [xml EXCEPT !.endOfElement_ = TRUE])

\* XmlReader::skipToEndElement(), for a reader with a current node.
skipToEndElement(xml) ==
    IF xml.endOfElement_
    THEN [xml EXCEPT !.curElement_ = Parent(xml.curElement_)]
    ELSE [xml EXCEPT !.endOfElement_ = TRUE]

(***************************************************************************)
(* The try...() functions of the XmlReader on their own.                   *)
(***************************************************************************)
\* The largest number of child elements of an element of the documents.
MaxChildren == 2

\* The documents: a root element with child elements "a" and "b" that have
\* child elements "a" without children.
ReaderDocuments ==
    LET leaves == {Element("a", <<>>)}
        inner == {Element(name, children) : name \in {"a", "b"}, children \in SeqsOf(leaves, 0, MaxChildren)}
    IN  {Element("root", children) : children \in SeqsOf(inner, 0, MaxChildren)}

\* The paths of the elements of the document.
ElementPaths(doc) ==
    {<<1>>} \cup {<<1, k>> : k \in DOMAIN doc.children}
            \cup UNION {{<<1, k, n>> : n \in DOMAIN doc.children[k].children} : k \in DOMAIN doc.children}

\* The states of a reader of the document: before the root element, at the
\* start tag or the end tag of an element, and after the end tag of the
\* root element.
ReaderStates(doc) ==
    {XmlReader(doc, nullptr, FALSE), XmlReader(doc, <<>>, TRUE)}
        \cup {XmlReader(doc, path, endOfElement) : path \in ElementPaths(doc), endOfElement \in BOOLEAN}

ReaderInit ==
    /\ call \in {[function |-> f, xml |-> xml, expectedName |-> name] :
                    f \in {"tryReadStartElement", "tryReadStartElementNamed", "tryReadEndElement"},
                    xml \in UNION {ReaderStates(doc) : doc \in ReaderDocuments},
                    name \in {"a", "b", "root"}}
    /\ call.function # "tryReadStartElementNamed" => call.expectedName = "a"
    /\ call.function = "tryReadEndElement" => call.xml.curElement_ # nullptr
    /\ returnValue = <<>>
    /\ LinkIdle
    /\ ResolveIdle
    /\ ParseIdle

CallTryReadStartElement ==
    /\ call.function = "tryReadStartElement"
    /\ returnValue = <<>>
    /\ returnValue' = <<tryReadStartElement(call.xml)>>
    /\ UNCHANGED call
    /\ UNCHANGED nonCallVars

CallTryReadStartElementNamed ==
    /\ call.function = "tryReadStartElementNamed"
    /\ returnValue = <<>>
    /\ returnValue' = <<tryReadStartElementNamed(call.xml, call.expectedName)>>
    /\ UNCHANGED call
    /\ UNCHANGED nonCallVars

CallTryReadEndElement ==
    /\ call.function = "tryReadEndElement"
    /\ returnValue = <<>>
    /\ returnValue' = <<tryReadEndElement(call.xml)>>
    /\ UNCHANGED call
    /\ UNCHANGED nonCallVars

ReaderNext ==
    \/ CallTryReadStartElement
    \/ CallTryReadStartElementNamed
    \/ CallTryReadEndElement

ReaderSpec == ReaderInit /\ [][ReaderNext]_vars

\* C25: a call of tryReadStartElement(), tryReadStartElement(name) or
\* tryReadEndElement() that returns false leaves the current element and
\* the start-tag/end-tag state of the reader as they were.
C25_FalseLeavesReaderUnchanged ==
    returnValue # <<>> /\ returnValue[1].result = FALSE => returnValue[1].reader = call.xml

\* tryReadStartElement(name) has returned false at the start tag of an
\* element whose first child element has another name.
C25_Witness ==
    /\ call.function = "tryReadStartElementNamed"
    /\ returnValue # <<>>
    /\ returnValue[1].result = FALSE
    /\ ~call.xml.endOfElement_
    /\ call.xml.curElement_ # nullptr
    /\ FirstChildElement(call.xml.doc_, call.xml.curElement_) # nullptr

(***************************************************************************)
(* XmlChildElementParsers.  An error is the category_, name_ and value_ of *)
(* an XmlParseError, or a message under the category "std::string".  A     *)
(* parser is an entry of parsers_; parseFunc_ names the function it calls. *)
(* The result holds the errors, the lanes_ of a lane section and, for each *)
(* entry, how often its parse function ran and the element it ran on last. *)
(***************************************************************************)
ParseError(category, name, value) == [category |-> category, name |-> name, value |-> value]

StringError(message) == ParseError("std::string", "", message)

LaneElement(id) == [name |-> "lane", children |-> <<>>, id |-> id]

\* XmlChildElementParsers::addParser
Parser(name, multiplicity, parseFunc) ==
    [name_ |-> name,
     required_ |-> multiplicity \in {"ONE", "ONE_OR_MORE"},
     allowMany_ |-> multiplicity \in {"ZERO_OR_MORE", "ONE_OR_MORE"},
     parseFunc_ |-> parseFunc]

\* The parsers of the tests, one for each multiplicity, as finalize() sorts
\* them: each counts its calls and skips to the end of its element.
TestChildElemParsers ==
    << Parser("a", "ONE", "skipToEndElement"),
       Parser("b", "ZERO_OR_ONE", "skipToEndElement"),
       Parser("c", "ZERO_OR_MORE", "skipToEndElement"),
       Parser("d", "ONE_OR_MORE", "skipToEndElement") >>

\* Road::ObjectsChildElemParsers, as finalize() sorts them.
ObjectsChildElemParsers ==
    << Parser("bridge", "ZERO_OR_MORE", "notImplemented"),
       Parser("object", "ZERO_OR_MORE", "skipToEndElement"),
       Parser("objectReference", "ZERO_OR_MORE", "notImplemented"),
       Parser("tunnel", "ZERO_OR_MORE", "notImplemented") >>

\* LaneSection::ChildElemParsers, as finalize() sorts them.
LaneSectionChildElemParsers ==
    << Parser("center", "ONE", "center"),
       Parser("left", "ZERO_OR_ONE", "parseLeftLanes"),
       Parser("right", "ZERO_OR_ONE", "parseRightLanes") >>

\* The result before parse(): no errors, no lanes, no parse function has run.
EmptyResult(parsers) ==
    [errors |-> <<>>,
     lanes_ |-> <<>>,
     numCalls |-> [name \in {parsers[i].name_ : i \in DOMAIN parsers} |-> 0],
     value |-> [name \in {parsers[i].name_ : i \in DOMAIN parsers} |-> nullptr]]

\* What a parse function leaves: the reader and the result.
Handled(xml, res) == [xml |-> xml, result |-> res]

emplace_back(res, error) == [res EXCEPT !.errors = Append(@, error)]

\* The function LaneSection::parseLeftLanes and LaneSection::parseRightLanes
\* pass to parseOneOrMore, for a <lane> with the id and valid attributes.
parseLane(res, side, id) ==
    LET prev == res.lanes_[Len(res.lanes_)]
        signed == IF side = "left" /\ id <= 0
                  THEN emplace_back(res, StringError("Left lanes must have a positive ID."))
                  ELSE IF side = "right" /\ id >= 0
                  THEN emplace_back(res, StringError("Right lanes must have a negative ID."))
                  ELSE res
        consecutive == IF side = "left"
                       THEN res.lanes_ = <<>> \/ prev - 1 = id
                       ELSE IF res.lanes_ = <<>> \/ prev = 1 THEN id = -1 ELSE prev - 1 = id
        checked == IF consecutive THEN signed
                   ELSE emplace_back(signed, StringError("Lanes should occur with consecutive and descending IDs."))
    IN  [checked EXCEPT !.lanes_ = Append(@, id)]

\* XmlChildElementParsers::parseOneOrMore(xml, result, "lane", func)
RECURSIVE parseOneOrMore(_, _, _, _, _)
parseOneOrMore(xml, res, side, atLeastOne, parent) ==
    LET end == tryReadEndElement(xml)
        start == tryReadStartElement(xml).reader
        child == elementAt(start.doc_, start.curElement_)
    IN  IF end.result
        THEN Handled(end.reader, IF atLeastOne THEN res
                                 ELSE emplace_back(res, ParseError("MISSING_CHILD_ELEMENT", parent, "lane")))
        ELSE IF child.name = "lane"
        THEN parseOneOrMore(skipToEndElement(start), parseLane(res, side, child.id), side, TRUE, parent)
        ELSE parseOneOrMore(skipToEndElement(start), res, side, atLeastOne, parent)

\* parsers_[mid].parseFunc_(xml, result)
parseFunc(parser, xml, res) ==
    LET called == [res EXCEPT !.numCalls[parser.name_] = @ + 1, !.value[parser.name_] = xml.curElement_]
    IN  CASE parser.parseFunc_ = "skipToEndElement" ->
                Handled(skipToEndElement(xml), called)
          [] parser.parseFunc_ = "notImplemented" ->
                Handled(xml, emplace_back(called, StringError("WARNING: <" \o parser.name_ \o "> element not implemented yet.")))
          [] parser.parseFunc_ = "center" ->
                IF called.lanes_ # <<>> /\ called.lanes_[Len(called.lanes_)] # 1
                THEN Handled(xml, emplace_back(called, StringError("Lanes should occur with consecutive and descending IDs.")))
                ELSE Handled(skipToEndElement(xml), called)
          [] parser.parseFunc_ = "parseLeftLanes" ->
                parseOneOrMore(xml, called, "left", FALSE, Value(xml.doc_, xml.curElement_))
          [] parser.parseFunc_ = "parseRightLanes" ->
                parseOneOrMore(xml, called, "right", FALSE, Value(xml.doc_, xml.curElement_))

\* The index of the parser with the name, which the binary search finds in
\* the sorted parsers_, or 0 where the search range becomes empty.
parserIndex(parsers, name) ==
    IF \E i \in DOMAIN parsers : parsers[i].name_ = name
    THEN CHOOSE i \in DOMAIN parsers : parsers[i].name_ = name
    ELSE 0

\* What one turn of the loop leaves.
Turn(xml, visitedMask, res) == [xml |-> xml, visitedMask |-> visitedMask, result |-> res]

\* A turn of the loop that skips an element whose parser was visited before
\* and does not allow many.
parseChildElement_SkipsDuplicates(parsers, xml, visitedMask, res, parentName) ==
    LET name == Value(xml.doc_, xml.curElement_)
        mid == parserIndex(parsers, name)
        handled == parseFunc(parsers[mid], xml, res)
    IN  IF mid = 0
        THEN Turn(skipToEndElement(xml), visitedMask,
                  emplace_back(res, ParseError("UNEXPECTED_CHILD_ELEMENT", parentName, name)))
        ELSE IF mid \in visitedMask /\ ~parsers[mid].allowMany_
        THEN Turn(skipToEndElement(xml), visitedMask,
                  emplace_back(res, ParseError("DUPLICATE_CHILD_ELEMENT", parentName, name)))
        ELSE Turn(handled.xml, visitedMask \cup {mid}, handled.result)

\* One turn of the loop of XmlChildElementParsers::parse, after
\* readStartElement(): the search for the parser of the element, the
\* duplicate check and the call of the parse function.
parseChildElement(parsers, xml, visitedMask, res, parentName) ==
    LET name == Value(xml.doc_, xml.curElement_)
        mid == parserIndex(parsers, name)
        reported == IF mid \in visitedMask /\ ~parsers[mid].allowMany_
                    THEN emplace_back(res, ParseError("DUPLICATE_CHILD_ELEMENT", parentName, name))
                    ELSE res
        handled == parseFunc(parsers[mid], xml, reported)
    IN  IF mid = 0
        THEN Turn(skipToEndElement(xml), visitedMask,
                  emplace_back(res, ParseError("UNEXPECTED_CHILD_ELEMENT", parentName, name)))
        ELSE Turn(handled.xml, visitedMask \cup {mid}, handled.result)

\* The loop of XmlChildElementParsers::parse.
RECURSIVE parseChildElements(_, _, _, _, _)
parseChildElements(parsers, xml, visitedMask, res, parentName) ==
    LET end == tryReadEndElement(xml)
        turn == parseChildElement(parsers, tryReadStartElement(xml).reader, visitedMask, res, parentName)
    IN  IF end.result
        THEN Turn(end.reader, visitedMask, res)
        ELSE parseChildElements(parsers, turn.xml, turn.visitedMask, turn.result, parentName)

\* The errors of the parsers that were not invoked, from the i-th on; the
\* default setters of addParser and addVectorElementParser do nothing.
RECURSIVE reportMissing(_, _, _, _, _)
reportMissing(parsers, i, visitedMask, res, parentName) ==
    IF i > Len(parsers) THEN res
    ELSE reportMissing(parsers, i + 1, visitedMask,
                       IF i \notin visitedMask /\ parsers[i].required_
                       THEN emplace_back(res, ParseError("MISSING_CHILD_ELEMENT", parentName, parsers[i].name_))
                       ELSE res,
                       parentName)

\* XmlChildElementParsers::parse(xml, result)
childElementParsers_parse(parsers, xml, res) ==
    LET parentName == Value(xml.doc_, xml.curElement_)
        loop == parseChildElements(parsers, xml, {}, res, parentName)
    IN  Handled(loop.xml, reportMissing(parsers, 1, loop.visitedMask, loop.result, parentName))

(***************************************************************************)
(* XmlChildElementParsers::parse on its own: the reader is on the start    *)
(* tag of the root element of a document and the result is empty.          *)
(***************************************************************************)
\* The largest number of child elements of the element that is parsed.
MaxChildElements == 3

\* The child elements the documents of each parser table are made of.
TestChildren == {Element(name, <<>>) : name \in {"a", "b", "c", "d", "x"}}

ObjectsChildren ==
    {Element(name, <<>>) : name \in {"object", "tunnel", "bridge", "x"}}
        \cup {Element("tunnel", <<Element("object", <<>>)>>)}

LaneSectionChildren ==
    {Element("left", <<LaneElement(1)>>), Element("left", <<LaneElement(2)>>),
     Element("center", <<LaneElement(0)>>), Element("center", <<>>),
     Element("right", <<LaneElement(-1)>>)}

ChildParseCall(parsers, root, children) ==
    [function |-> "XmlChildElementParsers::parse",
     parsers |-> parsers,
     xml |-> XmlReader(Element(root, children), <<1>>, FALSE)]

ChildInit ==
    /\ call \in {ChildParseCall(TestChildElemParsers, "root", c) : c \in SeqsOf(TestChildren, 0, MaxChildElements)}
           \cup {ChildParseCall(ObjectsChildElemParsers, "objects", c) : c \in SeqsOf(ObjectsChildren, 0, MaxChildElements)}
           \cup {ChildParseCall(LaneSectionChildElemParsers, "laneSection", c) : c \in SeqsOf(LaneSectionChildren, 0, MaxChildElements)}
    /\ returnValue = <<>>
    /\ LinkIdle
    /\ ResolveIdle
    /\ ParseIdle

CallChildElementParsersParse ==
    /\ call.function = "XmlChildElementParsers::parse"
    /\ returnValue = <<>>
    /\ returnValue' = <<childElementParsers_parse(call.parsers, call.xml, EmptyResult(call.parsers))>>
    /\ UNCHANGED call
    /\ UNCHANGED nonCallVars

ChildNext == CallChildElementParsersParse

ChildSpec == ChildInit /\ [][ChildNext]_vars

\* XmlChildElementParsers::parse has returned.
ChildParseReturned == call.function = "XmlChildElementParsers::parse" /\ returnValue # <<>>

\* The reader is on the end tag of the element it was on when parse was
\* entered.
OnEndTagOfParent ==
    /\ returnValue[1].xml.curElement_ = call.xml.curElement_
    /\ returnValue[1].xml.endOfElement_

\* The indices of the child elements with the name, of the element that is
\* parsed.
OccurrencesOf(name) ==
    {k \in DOMAIN call.xml.doc_.children : call.xml.doc_.children[k].name = name}

\* The number of errors of the category about the child element name of
\* the element that is parsed.
NumErrors(category, name) ==
    Cardinality({k \in DOMAIN returnValue[1].result.errors :
                    returnValue[1].result.errors[k] = ParseError(category, call.xml.doc_.name, name)})

Max(S) == CHOOSE x \in S : \A y \in S : y <= x

Min(S) == CHOOSE x \in S : \A y \in S : x <= y

\* C22: parse, entered on the start tag of an element, returns with the
\* reader on the end tag of that same element, for every combination of
\* known, unknown, duplicated and not-implemented child elements and for an
\* erroneous center lane.
C22_ReturnsOnEndTagOfSameElement == ChildParseReturned => OnEndTagOfParent

\* C23: after parse, there is exactly one MISSING_CHILD_ELEMENT error for
\* each required entry that occurred zero times, exactly one
\* DUPLICATE_CHILD_ELEMENT error for each occurrence beyond the first of an
\* entry that does not allow many, and no such error for any other entry.
C23_OneErrorPerMissingOrExtraChild ==
    ChildParseReturned =>
        \A i \in DOMAIN call.parsers :
            LET parser == call.parsers[i]
                n == Cardinality(OccurrencesOf(parser.name_))
            IN  /\ NumErrors("MISSING_CHILD_ELEMENT", parser.name_) = IF parser.required_ /\ n = 0 THEN 1 ELSE 0
                /\ NumErrors("DUPLICATE_CHILD_ELEMENT", parser.name_) = IF ~parser.allowMany_ /\ n > 1 THEN n - 1 ELSE 0

\* C30 as stated: when an entry that does not allow many occurs more than
\* once, each extra occurrence is reported as DUPLICATE_CHILD_ELEMENT and
\* skipped: the parse function runs once, on the first occurrence.
C30_ExtraOccurrencesAreSkipped ==
    ChildParseReturned =>
        \A i \in DOMAIN call.parsers :
            LET parser == call.parsers[i]
                n == Cardinality(OccurrencesOf(parser.name_))
            IN  ~parser.allowMany_ /\ n > 1 =>
                    /\ NumErrors("DUPLICATE_CHILD_ELEMENT", parser.name_) = n - 1
                    /\ returnValue[1].result.numCalls[parser.name_] = 1
                    /\ returnValue[1].result.value[parser.name_] = <<1, Min(OccurrencesOf(parser.name_))>>

\* C30, amended: when an entry that does not allow many occurs more than
\* once and parse returns on the end tag of the element, each extra
\* occurrence is reported as DUPLICATE_CHILD_ELEMENT and parsed as well: the
\* parse function runs for every occurrence, the last one last.
C30_ExtraOccurrencesAreParsedToo ==
    ChildParseReturned /\ OnEndTagOfParent =>
        \A i \in DOMAIN call.parsers :
            LET parser == call.parsers[i]
                n == Cardinality(OccurrencesOf(parser.name_))
            IN  ~parser.allowMany_ /\ n > 1 =>
                    /\ NumErrors("DUPLICATE_CHILD_ELEMENT", parser.name_) = n - 1
                    /\ returnValue[1].result.numCalls[parser.name_] = n
                    /\ returnValue[1].result.value[parser.name_] = <<1, Max(OccurrencesOf(parser.name_))>>

\* parse has returned on the end tag of an element with two <a> children,
\* where <a> may occur once.
C30_Witness ==
    /\ ChildParseReturned
    /\ OnEndTagOfParent
    /\ call.parsers = TestChildElemParsers
    /\ Cardinality(OccurrencesOf("a")) = 2

(***************************************************************************)
(* XmlAttributeParsers.  An attribute is a name_ and a value_ text.  A     *)
(* parser is an entry of parsers_ for an int field; the result holds the   *)
(* errors and, for each field, its value and what assigned it.             *)
(***************************************************************************)
Attrib(name, value) == [name_ |-> name, value_ |-> value]

\* XmlAttributeParsers::addFieldParser
FieldParser(name) == [name_ |-> name, required_ |-> TRUE, defaultValue |-> 0]

\* XmlAttributeParsers::addOptionalFieldParser
OptionalFieldParser(name, defaultValue) == [name_ |-> name, required_ |-> FALSE, defaultValue |-> defaultValue]

\* The parsers of the tests: two required fields and two optional ones, as
\* finalize() sorts them.
TestAttribParsers ==
    << FieldParser("a"), FieldParser("b"), OptionalFieldParser("c", 100), OptionalFieldParser("d", 200) >>

\* The numbers std::stoi reads from the texts it accepts: it reads the
\* digits a text begins with and ignores what follows them.
StoiValue == ("1" :> 1) @@ ("2x" :> 2) @@ ("100" :> 100)

\* parseXmlAttrib<int>(value), that is std::stoi(value), which throws for a
\* text that does not begin with a number.
stoi(value) ==
    IF value \in DOMAIN StoiValue
    THEN [value |-> StoiValue[value], threw |-> FALSE]
    ELSE [value |-> 0, threw |-> TRUE]

\* A field nothing was assigned to, with the value it had before parse().
Unassigned(value) == [value |-> value, by |-> "nothing"]

\* The result before parse(): no errors, no field assigned.
EmptyAttribResult(parsers) ==
    [errors |-> <<>>,
     value |-> [name \in {parsers[i].name_ : i \in DOMAIN parsers} |-> Unassigned(0)]]

\* The part of the loop for an attribute that assigns the default value to
\* the field when the value of the attribute is invalid.
parseAttribute_DefaultsOnInvalid(parsers, elementName, attrib, visitedMask, res) ==
    LET mid == parserIndex(parsers, attrib.name_)
        parsed == stoi(attrib.value_)
    IN  IF mid = 0
        THEN [visitedMask |-> visitedMask,
              result |-> emplace_back(res, ParseError("UNEXPECTED_ATTRIBUTE", elementName, attrib.value_))]
        ELSE IF parsed.threw
        THEN [visitedMask |-> visitedMask,
              result |-> emplace_back(res, ParseError("INVALID_ATTRIBUTE_VALUE", parsers[mid].name_, attrib.value_))]
        ELSE [visitedMask |-> visitedMask \cup {mid},
              result |-> [res EXCEPT !.value[parsers[mid].name_] = [value |-> parsed.value, by |-> "parseFunc_"]]]

\* The part of the loop of XmlAttributeParsers::parse for an attribute: the
\* search for its parser and the call of the parse function, which assigns
\* the field unless parseXmlAttrib throws.
parseAttribute(parsers, elementName, attrib, visitedMask, res) ==
    LET mid == parserIndex(parsers, attrib.name_)
        parsed == stoi(attrib.value_)
    IN  IF mid = 0
        THEN [visitedMask |-> visitedMask,
              result |-> emplace_back(res, ParseError("UNEXPECTED_ATTRIBUTE", elementName, attrib.value_))]
        ELSE IF parsed.threw
        THEN [visitedMask |-> visitedMask \cup {mid},
              result |-> emplace_back(res, ParseError("INVALID_ATTRIBUTE_VALUE", parsers[mid].name_, attrib.value_))]
        ELSE [visitedMask |-> visitedMask \cup {mid},
              result |-> [res EXCEPT !.value[parsers[mid].name_] = [value |-> parsed.value, by |-> "parseFunc_"]]]

\* The loop of XmlAttributeParsers::parse over the attributes from the k-th
\* on.
RECURSIVE parseAttributes(_, _, _, _, _, _)
parseAttributes(parsers, elementName, attribs, k, visitedMask, res) ==
    LET step == parseAttribute(parsers, elementName, attribs[k], visitedMask, res)
    IN  IF k > Len(attribs)
        THEN [visitedMask |-> visitedMask, result |-> res]
        ELSE parseAttributes(parsers, elementName, attribs, k + 1, step.visitedMask, step.result)

\* A parser that was not invoked and is not required reports
\* MISSING_ATTRIBUTE as well.
notVisited_AlwaysReports(parser, elementName, res) ==
    emplace_back(res, ParseError("MISSING_ATTRIBUTE", elementName, parser.name_))

\* What XmlAttributeParsers::parse does for a parser that was not invoked.
notVisited(parser, elementName, res) ==
    IF parser.required_
    THEN emplace_back(res, ParseError("MISSING_ATTRIBUTE", elementName, parser.name_))
    ELSE [res EXCEPT !.value[parser.name_] = [value |-> parser.defaultValue, by |-> "setDefaultFunc_"]]

\* The loop over the parsers that were not invoked, from the i-th on.
RECURSIVE reportMissingAttributes(_, _, _, _, _)
reportMissingAttributes(parsers, elementName, i, visitedMask, res) ==
    IF i > Len(parsers) THEN res
    ELSE reportMissingAttributes(parsers, elementName, i + 1, visitedMask,
                                 IF i \in visitedMask THEN res ELSE notVisited(parsers[i], elementName, res))

\* XmlAttributeParsers::parse(xml, result), for the element name and the
\* attributes of the current element of xml.
attributeParsers_parse(parsers, elementName, attribs, res) ==
    LET loop == parseAttributes(parsers, elementName, attribs, 1, {}, res)
    IN  reportMissingAttributes(parsers, elementName, 1, loop.visitedMask, loop.result)

(***************************************************************************)
(* XmlAttributeParsers::parse on its own.                                  *)
(***************************************************************************)
\* The largest number of attributes of the element.
MaxAttributes == 3

\* The attributes of an element: their names differ, as XML requires.
AttributeLists ==
    {attribs \in SeqsOf({Attrib(name, value) : name \in {"a", "b", "c", "d", "x"}, value \in {"1", "2x", "100", "z"}}, 0, MaxAttributes) :
        \A j, k \in DOMAIN attribs : j # k => attribs[j].name_ # attribs[k].name_}

AttribInit ==
    /\ call \in {[function |-> "XmlAttributeParsers::parse", parsers |-> TestAttribParsers, elementName |-> "elem", attribs |-> attribs] :
                    attribs \in AttributeLists}
    /\ returnValue = <<>>
    /\ LinkIdle
    /\ ResolveIdle
    /\ ParseIdle

CallAttributeParsersParse ==
    /\ call.function = "XmlAttributeParsers::parse"
    /\ returnValue = <<>>
    /\ returnValue' = <<attributeParsers_parse(call.parsers, call.elementName, call.attribs, EmptyAttribResult(call.parsers))>>
    /\ UNCHANGED call
    /\ UNCHANGED nonCallVars

AttribNext == CallAttributeParsersParse

AttribSpec == AttribInit /\ [][AttribNext]_vars

\* XmlAttributeParsers::parse has returned.
AttribParseReturned == call.function = "XmlAttributeParsers::parse" /\ returnValue # <<>>

\* The element has an attribute with the name.
Present(name) == \E k \in DOMAIN call.attribs : call.attribs[k].name_ = name

\* The value text of the attribute with the name.
ValueOf(name) == call.attribs[CHOOSE k \in DOMAIN call.attribs : call.attribs[k].name_ = name].value_

\* The number of errors of the category with the name_.
NumAttribErrors(category, name) ==
    Cardinality({k \in DOMAIN returnValue[1].errors :
                    returnValue[1].errors[k].category = category /\ returnValue[1].errors[k].name = name})

\* The number of MISSING_ATTRIBUTE errors about the attribute.
NumMissing(name) ==
    Cardinality({k \in DOMAIN returnValue[1].errors :
                    returnValue[1].errors[k] = ParseError("MISSING_ATTRIBUTE", call.elementName, name)})

C29_OptionalFieldsAlwaysAssigned ==
    AttribParseReturned =>
        \A i \in DOMAIN call.parsers :
            LET parser == call.parsers[i]
                field == returnValue[1].value[parser.name_]
            IN  ~parser.required_ =>
                    IF Present(parser.name_) /\ ~stoi(ValueOf(parser.name_)).threw
                    THEN field = [value |-> stoi(ValueOf(parser.name_)).value, by |-> "parseFunc_"]
                    ELSE /\ field = [value |-> parser.defaultValue, by |-> "setDefaultFunc_"]
                         /\ Present(parser.name_) => NumAttribErrors("INVALID_ATTRIBUTE_VALUE", parser.name_) = 1

\* C29, amended: after parse, the field of an optional attribute holds the
\* parsed value if the attribute is present and valid and the declared
\* default if the attribute is absent; if the attribute is present and its
\* value fails to parse, INVALID_ATTRIBUTE_VALUE is recorded and the field
\* is not assigned.
C29_OptionalFieldsAssignedUnlessInvalid ==
    AttribParseReturned =>
        \A i \in DOMAIN call.parsers :
            LET parser == call.parsers[i]
                field == returnValue[1].value[parser.name_]
            IN  ~parser.required_ =>
                    IF ~Present(parser.name_)
                    THEN field = [value |-> parser.defaultValue, by |-> "setDefaultFunc_"]
                    ELSE IF ~stoi(ValueOf(parser.name_)).threw
                    THEN field = [value |-> stoi(ValueOf(parser.name_)).value, by |-> "parseFunc_"]
                    ELSE /\ field = Unassigned(0)
                         /\ NumAttribErrors("INVALID_ATTRIBUTE_VALUE", parser.name_) = 1

\* The optional attribute "c" is present with a value that is no number.
C29_Witness ==
    /\ AttribParseReturned
    /\ Present("c")
    /\ stoi(ValueOf("c")).threw

(***************************************************************************)
(* The calls of LaneID::sameSide and LaneSection::laneById that the lane   *)
(* link validators make.  The validators are taken for every pair of lane  *)
(* section contact points and every connection of the map, which includes  *)
(* the pairs and connections validateLinks hands to them.                  *)
(***************************************************************************)
SectionContactPoints ==
    UNION {{LaneSectionContactPointKey(r, i, cp) :
                i \in 0..(Len(roads[r + 1].laneSections) - 1), cp \in ContactPoint} : r \in RoadIndices}

Connections == UNION {{junctions[j + 1].connections[c] : c \in DOMAIN junctions[j + 1].connections} : j \in JunctionIndices}

\* The lanes of the 'from' section that have a link of the link type of its
\* contact point, as [fromLaneId, toLaneId, inRange], where inRange is what
\* validateLaneLinkInRange returns for the link: the loops over fromLanes of
\* validateLaneLinks, validateRoadRoadLaneLinks,
\* validateConnectingIncomingLaneLinks, validateConnectingOutgoingLaneLinks.
linksOfLanes(fromKey, toKey) ==
    LET fromSection == laneSectionByKey(fromKey)
        toSection == laneSectionByKey(toKey)
        linkType == linkTypeForContactPoint(fromKey.contactPoint)
    IN  {[fromLaneId |-> laneIndexToId(fromSection, i),
          toLaneId |-> link(fromSection.lanes[i + 1], linkType),
          inRange |-> validateLaneLinkInRange(fromKey, toKey, laneIndexToId(fromSection, i),
                                              link(fromSection.lanes[i + 1], linkType),
                                              fromKey.contactPoint = toKey.contactPoint,
                                              -numRightLanes(toSection), numLeftLanes(toSection))] :
            i \in {k \in 0..(Len(fromSection.lanes) - 1) : hasLink(fromSection.lanes[k + 1], linkType)}}

\* The <<a, b>> of the calls a.sameSide(b) of validateLaneLinkInRange in
\* the loops over the lanes: it is called unless the target is lane 0.
sameSideCallsOfLanes(fromKey, toKey) ==
    {<<lnk.fromLaneId, lnk.toLaneId>> : lnk \in {l \in linksOfLanes(fromKey, toKey) : l.toLaneId # 0}}

\* The ids of the calls toSection.laneById(id) in the loops over the lanes
\* of validateLaneLinks and validateRoadRoadLaneLinks: it is called when
\* validateLaneLinkInRange returns true.
laneByIdCallsOfLanes(fromKey, toKey) ==
    {lnk.toLaneId : lnk \in {l \in linksOfLanes(fromKey, toKey) : l.inRange.ok}}

\* The errors of a lane link of a connection which make
\* validateIncomingConnectingLaneLinks go on with the next lane link.
curErrorsOfLaneLink(fromKey, toKey, laneLink) ==
    centerLaneErrors(fromKey, toKey, laneLink.from, laneLink.to)
        \o toRangeErrors(fromKey, toKey, laneLink.from, laneLink.to,
                         -numRightLanes(laneSectionByKey(toKey)), numLeftLanes(laneSectionByKey(toKey)))
        \o fromRangeErrors(fromKey, toKey, laneLink.from, laneLink.to,
                           -numRightLanes(laneSectionByKey(fromKey)), numLeftLanes(laneSectionByKey(fromKey)))

\* The lane links of the connection for which
\* validateIncomingConnectingLaneLinks calls fromLaneId.sameSide(toLaneId).
sameSideCallsOfConnection(fromKey, toKey, connection) ==
    {<<connection.laneLinks[k].from, connection.laneLinks[k].to>> :
        k \in {n \in DOMAIN connection.laneLinks :
                  /\ curErrorsOfLaneLink(fromKey, toKey, connection.laneLinks[n]) = <<>>
                  /\ connection.laneLinks[n].from # 0
                  /\ connection.laneLinks[n].to # 0}}

\* The ids for which validateIncomingConnectingLaneLinks calls
\* toLaneSection.laneById(toLaneId).
laneByIdCallsOfConnection(fromKey, toKey, connection) ==
    {c[2] : c \in {d \in sameSideCallsOfConnection(fromKey, toKey, connection) :
                      sameSide(d[1], d[2]) # (fromKey.contactPoint = toKey.contactPoint)}}

\* The id is not 0 and lies inside [-numRightLanes, +numLeftLanes] of the
\* section, which laneIdToIndex asserts.
LaneIdAsserts(section, id) ==
    id # 0 /\ id <= numLeftLanes(section) /\ id >= -numRightLanes(section)

\* C28: whatever the lane link ids of the lanes and of the connections are,
\* the lane link validators call laneById only with an id that is not 0 and
\* lies inside [-numRightLanes, +numLeftLanes] of the section that is
\* indexed, and sameSide only on ids that are not 0; a link to lane 0 or to
\* an id out of range yields a validation error.
C28_LaneLookupsInRange ==
    \A a \in SectionContactPoints, b \in SectionContactPoints :
        /\ \A c \in sameSideCallsOfLanes(a, b) : c[1] # 0 /\ c[2] # 0
        /\ \A id \in laneByIdCallsOfLanes(a, b) : LaneIdAsserts(laneSectionByKey(b), id)
        /\ \A lnk \in linksOfLanes(a, b) :
               ~LaneIdAsserts(laneSectionByKey(b), lnk.toLaneId) => lnk.inRange.errs # <<>>
        /\ \A connection \in Connections :
               /\ \A c \in sameSideCallsOfConnection(a, b, connection) : c[1] # 0 /\ c[2] # 0
               /\ \A id \in laneByIdCallsOfConnection(a, b, connection) :
                      LaneIdAsserts(laneSectionByKey(b), id)
               /\ \A k \in DOMAIN connection.laneLinks :
                      (connection.laneLinks[k].to # 0 /\ ~LaneIdAsserts(laneSectionByKey(b), connection.laneLinks[k].to))
                          => curErrorsOfLaneLink(a, b, connection.laneLinks[k]) # <<>>

\* validateLinks has run on a map in which a lane stores a link to an id
\* beyond the lanes of any section and a connection stores a lane link, and
\* it has reported a target out of range.
C28_Witness ==
    /\ Done
    /\ ReportedKind("LaneLinkTargetOutOfRange")
    /\ \E a \in SectionContactPoints, b \in SectionContactPoints :
           \E lnk \in linksOfLanes(a, b) : lnk.toLaneId \in {-MaxLaneId, MaxLaneId} /\ ~lnk.inRange.ok

(***************************************************************************)
(* Well-formed maps: the maps validateLinks should accept.                 *)
(***************************************************************************)
\* The connections of the junction contact point a links to whose incoming
\* road is the road of a: the connections validateLinksIteration follows.
ConnectionsFrom(a) ==
    IF roadLinkForRoadContactPoint(a).elementType = "JUNCTION"
    THEN {c \in ConnectionsOf(roadLinkForRoadContactPoint(a).elementRef) : c.incomingRoad = a.roadIdx}
    ELSE {}

\* The end of its connecting road at which a connection enters it.
ConnectingEnd(c) == RoadContactPointKey(c.connectingRoad, c.contactPoint)

\* Contact point b, reached from a through a connection, links to a junction
\* which the road of a leaves through a, and which has no connection from
\* the road of b into a.
LeavesJunctionThrough(b, a) ==
    LET back == roadLinkForRoadContactPoint(b)
    IN  /\ back.elementType = "JUNCTION"
        /\ ~HasIncomingConnectionBack(back.elementRef, b, a)
        /\ HasOutgoingConnectionBack(back.elementRef, a)

\* Every direct road link leads to a road outside of the junctions whose
\* link leads back to the source contact point.
DirectLinksReciprocated ==
    \A a \in RoadContactPoints :
        roadLinkForRoadContactPoint(a).elementType = "ROAD" =>
            LET b == TargetOf(roadLinkForRoadContactPoint(a))
            IN  ~InJunction(b.roadIdx) /\ LeadsBack(b, a)

\* Every link to a junction is answered by the junction: one of its roads
\* links to the source contact point, and each connecting road entered from
\* the source road links back to an end of the source road that is attached
\* to the junction, or leaves a junction of its own through the source.
JunctionLinksReciprocated ==
    \A a \in RoadContactPoints :
        roadLinkForRoadContactPoint(a).elementType = "JUNCTION" =>
            /\ \E b \in RoadContactPoints :
                   /\ LinksToRoad(b, a)
                   /\ roads[b.roadIdx + 1].junctionRef = roadLinkForRoadContactPoint(a).elementRef
            /\ \A c \in ConnectionsFrom(a) :
                   \/ \E a2 \in RoadContactPoints :
                          /\ a2.roadIdx = a.roadIdx
                          /\ roadLinkForRoadContactPoint(a2) = roadLinkForRoadContactPoint(a)
                          /\ LinksToRoad(ConnectingEnd(c), a2)
                   \/ LeavesJunctionThrough(ConnectingEnd(c), a)

\* Every connecting road entered from the source contact point links back
\* to that very contact point, or leaves a junction of its own through it.
ConnectionsLeadBackToSource ==
    \A a \in RoadContactPoints :
        \A c \in ConnectionsFrom(a) :
            LinksToRoad(ConnectingEnd(c), a) \/ LeavesJunctionThrough(ConnectingEnd(c), a)

\* A lane link of a connection between the sections of a and b is in range
\* at both ends and joins lane 0 only with lane 0.
ConnectionLaneLinkInRange(pair, laneLink) ==
    /\ (laneLink.from = 0) = (laneLink.to = 0)
    /\ InRangeOf(SectionOf(pair[1]), laneLink.from)
    /\ InRangeOf(SectionOf(pair[2]), laneLink.to)

\* All lane links are reciprocated, in range and on the correct side: those
\* between the sections of a road, those across the direct road links
\* (answered by the lanes of the target or by the lane links of the
\* connection back), and those of the connections.
LaneLinksWellFormed ==
    /\ \A pair \in InternalSectionPairs :
           \A lnk \in LaneLinksAcross(pair) :
               ValidTarget(pair, lnk) /\ BackLinkOf(pair, lnk.b) = lnk.a
    /\ \A a \in RoadContactPoints :
           roadLinkForRoadContactPoint(a).elementType = "ROAD" =>
               LET b == TargetOf(roadLinkForRoadContactPoint(a))
                   back == roadLinkForRoadContactPoint(b)
                   pair == SectionPairOf(<<a, b>>)
               IN  \A lnk \in LaneLinksAcross(pair) :
                       /\ ValidTarget(pair, lnk)
                       /\ LinksToRoad(b, a) => BackLinkOf(pair, lnk.b) = lnk.a
                       /\ (back.elementType = "JUNCTION" /\ HasIncomingConnectionBack(back.elementRef, b, a)) =>
                              findLaneLinkTarget(
                                  junctions[back.elementRef + 1].connections[
                                      findConnection(junctions[back.elementRef + 1], b.roadIdx,
                                                     a.roadIdx, a.contactPoint)],
                                  lnk.b) = lnk.a
    /\ \A a \in RoadContactPoints :
           \A c \in ConnectionsFrom(a) :
               LET pair == SectionPairOf(<<a, ConnectingEnd(c)>>)
               IN  \A k \in DOMAIN c.laneLinks :
                       /\ ConnectionLaneLinkInRange(pair, c.laneLinks[k])
                       /\ (LinksToRoad(ConnectingEnd(c), a) /\ c.laneLinks[k].to # 0) =>
                              /\ OnSameSide(c.laneLinks[k].from, c.laneLinks[k].to) # BothStartOrBothEnd(pair)
                              /\ hasLink(laneById(SectionOf(pair[2]), c.laneLinks[k].to),
                                         linkTypeForContactPoint(pair[2].contactPoint))
                              /\ BackLinkOf(pair, c.laneLinks[k].to) = c.laneLinks[k].from

TargetIds(x) ==
    IF x.target = "road" THEN [k \in 1..Len(roads_) |-> roads_[k].id]
    ELSE [k \in 1..Len(junctions_) |-> junctions_[k].id]

\* The reference holds its null value and is null, or holds the index of
\* the object of its target vector that has its id.
ResolvedInBounds(x) ==
    IF x.nullValue # "" /\ x.ref.id = x.nullValue
    THEN x.ref.index = NULL_VALUE
    ELSE /\ x.ref.index \in 0..(Len(TargetIds(x)) - 1)
         /\ TargetIds(x)[x.ref.index + 1] = x.ref.id

\* C27: if the result that parseXml returns has hasValidConnectivity(),
\* then the road ids and the junction ids are unique and every specified
\* reference (junction of a road, predecessor, successor and neighbor
\* targets, incoming and connecting road of a connection) holds an index
\* inside its target vector, or null for the sentinel "-1" of the junction
\* of a road; no reference is left unresolved.
C27_ValidConnectivityMeansResolved ==
    (Returned /\ hasValidConnectivity(parseErrors)) =>
        /\ ~DuplicateRoadIds
        /\ ~DuplicateJunctionIds
        /\ \A x \in References(roads_, junctions_) :
               ResolvedInBounds(x) /\ x.ref.index # INVALID_VALUE

\* resolveReferences has returned a result with valid connectivity for a
\* document with a road outside of the junctions, a road in a junction,
\* road links, a neighbor and a connection.
C27_Witness ==
    /\ Returned
    /\ hasValidConnectivity(parseErrors)
    /\ \E x \in References(roads_, junctions_) : x.owner[1] = "road" /\ x.field = "junction" /\ x.ref.index = NULL_VALUE
    /\ \E x \in References(roads_, junctions_) : x.owner[1] = "road" /\ x.field = "junction" /\ x.ref.index >= 0
    /\ \E x \in References(roads_, junctions_) : x.owner[1] = "road" /\ x.field = "predecessor" /\ x.ref.index >= 0
    /\ \E x \in References(roads_, junctions_) : x.owner[1] = "road" /\ x.field = "leftNeighbor" /\ x.ref.index >= 0
    /\ \E x \in References(roads_, junctions_) : x.owner[1] = "junction" /\ x.ref.index >= 0

====
